---- MODULE Spec2Model ----
(***************************************************************************)
(* Local delivery core of the mail server: deliver_message,                *)
(* deliver_to_recipient (crates/email/src/message/delivery.rs) and the     *)
(* delivery-hook orchestrator try_delivery_hook                            *)
(* (crates/email/src/message/delivery_hooks.rs).                           *)
(***************************************************************************)
EXTENDS Integers, Sequences, FiniteSets, TLC

\* ------------------------------------------------------------------ bounds
\* Largest number of recipients of one IngestMessage.
MaxRcpt == 2
\* Largest number of output messages one filter-script run produces.
MaxOutputs == 2
\* Largest number of configured delivery hooks.
MaxHooks == 2
\* Largest Code attribute of an error (the SMTP reply codes have three digits).
MaxCode == 999
\* Largest number of mailbox ids, and of keywords, of one output message.
MaxMailboxes == 2
MaxKeywords == 2
\* Largest number of AddHeader pairs, and of ReplaceHeader operations, of one
\* header rewriting call, and the largest index of a ReplaceHeader operation.
MaxAdds == 2
MaxOps == 2
MaxIndex == 3
\* Largest number of header modifications the hooks return for one output.
MaxModifications == 3

\* ------------------------------------------------------- program constants
INBOX_ID == 0
TRASH_ID == 1
JUNK_ID == 2
DRAFTS_ID == 3
\* u64::MAX, the "not ingested" marker of IngestedEmail.change_id (stand-in
\* value: larger than every change id the model hands out).
U64_MAX == 9999
\* u32::MAX, the "no target" marker of try_delivery_hook's target_id (stand-in
\* value: larger than every mailbox id of the model).
U32_MAX == 999

\* ------------------------------------------------------------- directory
\* The directory of the model: two addresses of account 7, one of account 8,
\* and one address no account owns.
Addresses == {"a@x", "a@x.alias", "b@x", "nobody@x"}
Accounts == {7, 8}

\* Directory contents read by email_to_id: Ok(Some(id)) or Ok(None).
DirectoryEntry(address) ==
    CASE address = "a@x" -> [found |-> TRUE, id |-> 7]
      [] address = "a@x.alias" -> [found |-> TRUE, id |-> 7]
      [] address = "b@x" -> [found |-> TRUE, id |-> 8]
      [] OTHER -> [found |-> FALSE, id |-> 0]

\* All recipient lists of at most n addresses.
RcptLists(n) == UNION {[1..k -> Addresses] : k \in 0..n}

\* ---------------------------------------------------------------- errors
\* err.value(trc::Key::Code) of an error that has no Code attribute.
NoCode == -1

\* A trc::Error: its event type, the Code attribute (NoCode when absent) and
\* the Reason attribute ("" when absent).
Error(type, code, reason) == [type |-> type, code |-> code, reason |-> reason]
NoError == Error("none", NoCode, "")

\* Errors the external collaborators hand back.
StoreError == Error("Store", NoCode, "")
QuotaError == Error("Limit::Quota", NoCode, "")
TenantQuotaError == Error("Limit::TenantQuota", NoCode, "")
UnauthorizedError == Error("Security::Unauthorized", NoCode, "")

MessageIngestError(code, reason) == Error("MessageIngest::Error", code, reason)

\* The event types of the model: the four the classifier names and two others.
ErrorTypes ==
    {"Limit::Quota", "Limit::TenantQuota", "Security::Unauthorized",
     "MessageIngest::Error", "Store", "Limit::SizeRequest"}
\* The Reason attributes of the model.
Reasons == {"", "Message rejected by delivery hook", "rejected by script"}

\* ------------------------------------------------------ delivery statuses
Success == [variant |-> "Success", code |-> <<>>, reason |-> ""]
TemporaryFailure(reason) ==
    [variant |-> "TemporaryFailure", code |-> <<>>, reason |-> reason]
PermanentFailure(code, reason) ==
    [variant |-> "PermanentFailure", code |-> code, reason |-> reason]

\* A variant of CodeDigits with the last two digits exchanged.
CodeDigits_Swapped(n) ==
    <<(n \div 100) % 256, (n % 10) % 256, ((n % 100) \div 10) % 256>>

\* [(n / 100) as u8, ((n % 100) / 10) as u8, (n % 10) as u8]
CodeDigits(n) == <<(n \div 100) % 256, ((n % 100) \div 10) % 256, (n % 10) % 256>>

\* The match on err.as_ref() of deliver_message.
ClassifyError(err) ==
    CASE err.type = "Limit::Quota" -> TemporaryFailure("Mailbox over quota.")
      [] err.type = "Limit::TenantQuota" ->
            TemporaryFailure("Organization over quota.")
      [] err.type = "Security::Unauthorized" ->
            PermanentFailure(<<5, 5, 0>>,
                             "This account is not authorized to receive email.")
      [] err.type = "MessageIngest::Error" ->
            PermanentFailure(IF err.code = NoCode THEN <<5, 5, 0>>
                                                  ELSE CodeDigits(err.code),
                             err.reason)
      [] OTHER -> TemporaryFailure("Transient server failure.")

\* ------------------------------------------------------------- mailboxes
\* The mailbox tree every account starts with.
BaseMailboxes ==
    { [id |-> INBOX_ID, path |-> "Inbox", role |-> "inbox"],
      [id |-> TRASH_ID, path |-> "Deleted Items", role |-> "trash"],
      [id |-> JUNK_ID, path |-> "Junk Mail", role |-> "junk"],
      [id |-> 10, path |-> "Work", role |-> "none"] }

\* MailboxCacheAccess, as used by try_delivery_hook.
has_mailbox_id(cache, document_id) == \E m \in cache : m.id = document_id
mailbox_by_role(cache, role) == {m \in cache : m.role = role}
mailbox_by_path(cache, path) == {m \in cache : m.path = path}

\* The id mailbox_create_path gives a mailbox it creates.
FreshMailboxId(tree) ==
    1 + (CHOOSE n \in {m.id : m \in tree} : \A m \in tree : m.id <= n)

\* Id::from_str(&mailbox_id).ok() followed by document_id(): the strings of
\* the model that parse, and the document id each denotes.
IdFromStr(s) ==
    CASE s = "k" -> [ok |-> TRUE, document_id |-> 10]
      [] s = "l" -> [ok |-> TRUE, document_id |-> 11]
      [] OTHER -> [ok |-> FALSE, document_id |-> U32_MAX]

\* str::eq_ignore_ascii_case on the role names of the model.
AsciiLower(s) ==
    CASE s = "INBOX" -> "inbox"
      [] s = "Inbox" -> "inbox"
      [] s = "Trash" -> "trash"
      [] s = "TRASH" -> "trash"
      [] s = "Junk" -> "junk"
      [] OTHER -> s
eq_ignore_ascii_case(a, b) == AsciiLower(a) = AsciiLower(b)

\* ------------------------------------------------ delivery hooks: the data
\* One configured DeliveryHook: its id, the value its enable predicate
\* evaluates to (eval_if(...).unwrap_or(false)) and tempfail_on_error.
Hook(id, enable, tempfail_on_error) ==
    [id |-> id, enable |-> enable, tempfail_on_error |-> tempfail_on_error]

\* All hook configurations of at most n hooks.
HookConfigs(n) ==
    UNION { [1..k -> {Hook("h", e, t) : e \in BOOLEAN, t \in BOOLEAN}]
            : k \in 0..n }

\* hooks::Modification. special_use is an Option: <<>> or <<role>>.
FileInto(folder, mailbox_id, special_use, create) ==
    [type |-> "fileInto", folder |-> folder, mailbox_id |-> mailbox_id,
     special_use |-> special_use, create |-> create]
AddHeader(name, value) == [type |-> "addHeader", name |-> name, value |-> value]
ReplaceHeader(index, name, value) ==
    [type |-> "replaceHeader", index |-> index, name |-> name, value |-> value]

\* The outcome of send_delivery_hook_request: Err(_) or Ok(Response).
HookFailed ==
    [ok |-> FALSE, action |-> "none", skip_inbox |-> FALSE, flags |-> {},
     modifications |-> <<>>]
HookResponse(action, skip_inbox, flags, modifications) ==
    [ok |-> TRUE, action |-> action, skip_inbox |-> skip_inbox, flags |-> flags,
     modifications |-> modifications]
\* What stands in the exchange list for a hook that is not enabled, to which
\* no request is sent.
NoRequest ==
    [ok |-> FALSE, action |-> "unsent", skip_inbox |-> FALSE, flags |-> {},
     modifications |-> <<>>]

\* The hook outcomes of the model: a failed request, and each verdict, plain
\* or together with filing, flags and header modifications.
HookOutcomes ==
    { HookFailed,
      HookResponse("accept", FALSE, {}, <<>>),
      HookResponse("accept", TRUE, {"$label1"},
                   << AddHeader("X-A", "1"), FileInto("", "k", <<>>, FALSE) >>),
      HookResponse("accept", FALSE, {},
                   << FileInto("New", "", <<>>, TRUE) >>),
      HookResponse("discard", FALSE, {}, <<>>),
      HookResponse("discard", FALSE, {},
                   << FileInto("New", "", <<>>, TRUE) >>),
      HookResponse("quarantine", FALSE, {}, <<>>),
      HookResponse("quarantine", FALSE, {},
                   << AddHeader("X-B", "2"), FileInto("", "k", <<>>, FALSE) >>),
      HookResponse("reject", FALSE, {}, <<>>) }

\* The hook outcomes of the multi-recipient specification: a failed request
\* and the plain verdicts.
PlainOutcomes ==
    { HookFailed,
      HookResponse("accept", FALSE, {}, <<>>),
      HookResponse("discard", FALSE, {}, <<>>),
      HookResponse("quarantine", FALSE, {}, <<>>),
      HookResponse("reject", FALSE, {}, <<>>) }

\* The outcomes of mailbox_create_path followed by the cache refresh:
\* Ok(Some(id)) and a refreshed cache; Ok(None); Err(_); Ok(Some(id)) and a
\* failed refresh.
CreateOutcomes == {"ok", "none", "err", "refresh_err"}

HasCreate(response) ==
    \E j \in 1..Len(response.modifications) :
        /\ response.modifications[j].type = "fileInto"
        /\ response.modifications[j].create

\* What one hook contributes to one try_delivery_hook call: its response, and
\* the outcome of the mailbox creations its response asks for.
Exchange(response, create) == [response |-> response, create |-> create]
HookExchanges(hook, responses) ==
    IF hook.enable
    THEN { Exchange(r, c) : r \in responses, c \in CreateOutcomes }
    ELSE { Exchange(NoRequest, "ok") }
ExchangeLists(hooks, responses) ==
    { x \in [1..Len(hooks) ->
                UNION {HookExchanges(hooks[k], responses) : k \in 1..Len(hooks)}] :
        \A k \in 1..Len(hooks) :
            /\ x[k] \in HookExchanges(hooks[k], responses)
            /\ (x[k].create # "ok" => HasCreate(x[k].response)) }

\* Everything the environment decides in one try_delivery_hook call: the
\* directory's answer for the principal, the mailbox-cache fetch, and the
\* exchanges. Choices that the code never looks at are fixed.
HookInput(principal, cache, exchanges) ==
    [principal |-> principal, cache |-> cache, exchanges |-> exchanges]
HookInputs(hooks, responses) ==
    { HookInput(p, "ok", [k \in 1..Len(hooks) |-> Exchange(NoRequest, "ok")])
        : p \in {"none", "err"} }
    \cup { HookInput("ok", c, x)
            : c \in IF \E k \in 1..Len(hooks) : hooks[k].enable
                    THEN {"ok", "err"} ELSE {"ok"},
              x \in ExchangeLists(hooks, responses) }
NoHookInput == HookInput("unasked", "ok", <<>>)

\* ------------------------------------------- try_delivery_hook: the fold
\* The locals of try_delivery_hook while it folds the hook results, with the
\* account's mailbox tree (which mailbox_create_path changes), the numbers of
\* mailbox_create_path and get_cached_messages calls made, and how the fold
\* ended so far: "cont" (still folding), "none" (return Ok(None)) or "err"
\* (an error propagated by `?`).
FoldStart(cache, tree) ==
    [mailbox_ids |-> {}, flags |-> {}, skip_inbox |-> FALSE,
     modifications_out |-> <<>>, should_tempfail |-> FALSE,
     should_permfail |-> FALSE, cache |-> cache, tree |-> tree, creates |-> 0,
     fetches |-> 0, ret |-> "cont", error |-> NoError]

\* "Find mailbox by Id first": a non-empty mailbox_id that parses and whose
\* document id the cache has.
TargetById(m, cache) ==
    IF /\ m.mailbox_id # ""
       /\ IdFromStr(m.mailbox_id).ok
       /\ has_mailbox_id(cache, IdFromStr(m.mailbox_id).document_id)
    THEN IdFromStr(m.mailbox_id).document_id
    ELSE U32_MAX

\* SpecialUse::parse: the role a special_use string names, if any.
SpecialUseParse(s) ==
    IF AsciiLower(s) \in {"junk", "trash", "inbox", "archive", "sent", "drafts"}
    THEN <<AsciiLower(s)>>
    ELSE <<>>

\* A variant of TargetByRole that looks at special_use whether or not the
\* mailbox_id resolved.
TargetByRole_First(m, cache, target_id) ==
    IF m.special_use # <<>>
    THEN IF eq_ignore_ascii_case(m.special_use[1], "inbox") THEN INBOX_ID
         ELSE IF eq_ignore_ascii_case(m.special_use[1], "trash") THEN TRASH_ID
         ELSE IF /\ SpecialUseParse(m.special_use[1]) # <<>>
                 /\ mailbox_by_role(cache, SpecialUseParse(m.special_use[1])[1]) # {}
              THEN (CHOOSE x \in mailbox_by_role(
                        cache, SpecialUseParse(m.special_use[1])[1]) : TRUE).id
              ELSE target_id
    ELSE target_id

\* "Find mailbox by special_use role if ID not found".
TargetByRole(m, cache, target_id) ==
    IF m.special_use # <<>> /\ target_id = U32_MAX
    THEN IF eq_ignore_ascii_case(m.special_use[1], "inbox") THEN INBOX_ID
         ELSE IF eq_ignore_ascii_case(m.special_use[1], "trash") THEN TRASH_ID
         ELSE IF /\ SpecialUseParse(m.special_use[1]) # <<>>
                 /\ mailbox_by_role(cache, SpecialUseParse(m.special_use[1])[1]) # {}
              THEN (CHOOSE x \in mailbox_by_role(
                        cache, SpecialUseParse(m.special_use[1])[1]) : TRUE).id
              ELSE target_id
    ELSE target_id

\* mailbox_create_path(user_id, path) answering Ok(Some(id)): the tree with
\* the mailbox at path (created when it is missing).
CreatePath(tree, path) ==
    IF mailbox_by_path(tree, path) # {}
    THEN tree
    ELSE tree \cup {[id |-> FreshMailboxId(tree), path |-> path, role |-> "none"]}

AddTarget(st, target_id) ==
    IF target_id # U32_MAX
    THEN [st EXCEPT !.mailbox_ids = @ \cup {target_id}]
    ELSE st

\* A variant of FileIntoCreate that leaves its mailbox_create_path call
\* uncounted.
FileIntoCreate_Uncounted(st, m, create) ==
    LET tree2 == CreatePath(st.tree, m.folder)
        id == (CHOOSE x \in mailbox_by_path(tree2, m.folder) : TRUE).id
    IN CASE create = "err" -> [st EXCEPT !.ret = "err", !.error = StoreError]
         [] create = "none" -> st
         [] create = "refresh_err" ->
                [st EXCEPT !.tree = tree2, !.fetches = @ + 1,
                           !.ret = "err", !.error = StoreError]
         [] OTHER ->
                AddTarget([st EXCEPT !.tree = tree2, !.cache = tree2,
                                     !.fetches = @ + 1], id)

\* "Find mailbox by name", with create: mailbox_create_path and the cache
\* refresh, each of which may fail (`?`).
FileIntoCreate(st, m, create) ==
    LET called == [st EXCEPT !.creates = @ + 1]
        tree2 == CreatePath(st.tree, m.folder)
        id == (CHOOSE x \in mailbox_by_path(tree2, m.folder) : TRUE).id
    IN CASE create = "err" -> [called EXCEPT !.ret = "err", !.error = StoreError]
         [] create = "none" -> called
         [] create = "refresh_err" ->
                [called EXCEPT !.tree = tree2, !.fetches = @ + 1,
                               !.ret = "err", !.error = StoreError]
         [] OTHER ->
                AddTarget([called EXCEPT !.tree = tree2, !.cache = tree2,
                                         !.fetches = @ + 1], id)

\* One Modification::FileInto of a response.
ApplyFileInto(st, m, create) ==
    LET by_id == TargetById(m, st.cache)
        by_role == TargetByRole(m, st.cache, by_id)
    IN IF by_role # U32_MAX THEN AddTarget(st, by_role)
       ELSE IF ~m.create
            THEN IF mailbox_by_path(st.cache, m.folder) # {}
                 THEN AddTarget(st,
                        (CHOOSE x \in mailbox_by_path(st.cache, m.folder) : TRUE).id)
                 ELSE st
            ELSE FileIntoCreate(st, m, create)

\* One element of response.modifications.
ApplyModification(st, m, create) ==
    CASE m.type = "fileInto" -> ApplyFileInto(st, m, create)
      [] m.type = "addHeader" ->
            [st EXCEPT !.modifications_out = Append(@, AddHeader(m.name, m.value))]
      [] OTHER ->
            [st EXCEPT !.modifications_out =
                          Append(@, ReplaceHeader(m.index, m.name, m.value))]

\* for modification in response.modifications, from the j-th on; an error
\* leaves the loop (and the function).
RECURSIVE ApplyModifications(_, _, _, _)
ApplyModifications(st, mods, j, create) ==
    IF j > Len(mods) \/ st.ret # "cont"
    THEN st
    ELSE ApplyModifications(ApplyModification(st, mods[j], create), mods, j + 1, create)

\* A variant of ApplyAction in which a Quarantine puts its header before the
\* modifications gathered so far.
ApplyAction_QuarantineFirst(st, hook, action) ==
    CASE action = "discard" -> [st EXCEPT !.ret = "none"]
      [] action = "quarantine" ->
            [st EXCEPT !.modifications_out =
                          << AddHeader("X-Quarantine", "true") >> \o @]
      [] action = "reject" ->
            IF hook.tempfail_on_error
            THEN [st EXCEPT !.should_tempfail = TRUE]
            ELSE [st EXCEPT !.should_permfail = TRUE]
      [] OTHER -> st

\* A variant of ApplyAction in which a Reject always asks for a permanent
\* failure, whatever the hook's tempfail_on_error.
ApplyAction_RejectPerm(st, hook, action) ==
    CASE action = "discard" -> [st EXCEPT !.ret = "none"]
      [] action = "quarantine" ->
            [st EXCEPT !.modifications_out =
                          Append(@, AddHeader("X-Quarantine", "true"))]
      [] action = "reject" -> [st EXCEPT !.should_permfail = TRUE]
      [] OTHER -> st

\* match response.action
ApplyAction(st, hook, action) ==
    CASE action = "discard" -> [st EXCEPT !.ret = "none"]
      [] action = "quarantine" ->
            [st EXCEPT !.modifications_out =
                          Append(@, AddHeader("X-Quarantine", "true"))]
      [] action = "reject" ->
            IF hook.tempfail_on_error
            THEN [st EXCEPT !.should_tempfail = TRUE]
            ELSE [st EXCEPT !.should_permfail = TRUE]
      [] OTHER -> st

\* A variant of ApplyHookError in which every failed hook asks for a
\* temporary failure, whatever its tempfail_on_error.
ApplyHookError_Tempfail(st, hook) == [st EXCEPT !.should_tempfail = TRUE]

\* The Err(err) arm of the fold: a failed hook.
ApplyHookError(st, hook) ==
    IF hook.tempfail_on_error THEN [st EXCEPT !.should_tempfail = TRUE] ELSE st

\* A variant of FoldHookResult in which each response sets skip_inbox anew.
FoldHookResult_LastSkip(st, hook, exchange) ==
    IF exchange.response.ok
    THEN LET merged == [st EXCEPT
                          !.skip_inbox = exchange.response.skip_inbox,
                          !.flags = @ \cup exchange.response.flags]
             modified == ApplyModifications(
                             merged, exchange.response.modifications, 1,
                             exchange.create)
         IN IF modified.ret # "cont"
            THEN modified
            ELSE ApplyAction(modified, hook, exchange.response.action)
    ELSE ApplyHookError(st, hook)

\* The body of `for (hook, result, elapsed) in hook_results`.
FoldHookResult(st, hook, exchange) ==
    IF exchange.response.ok
    THEN LET merged == [st EXCEPT
                          !.skip_inbox = @ \/ exchange.response.skip_inbox,
                          !.flags = @ \cup exchange.response.flags]
             modified == ApplyModifications(
                             merged, exchange.response.modifications, 1,
                             exchange.create)
         IN IF modified.ret # "cont"
            THEN modified
            ELSE ApplyAction(modified, hook, exchange.response.action)
    ELSE ApplyHookError(st, hook)

\* The indices (into the configuration) of the hooks whose enable predicate
\* holds, from the k-th hook on.
RECURSIVE EnabledFrom(_, _)
EnabledFrom(hooks, k) ==
    IF k > Len(hooks) THEN <<>>
    ELSE IF hooks[k].enable THEN <<k>> \o EnabledFrom(hooks, k + 1)
    ELSE EnabledFrom(hooks, k + 1)

\* A variant of EnabledHooks that takes every configured hook.
EnabledHooks_All(hooks) == [k \in 1..Len(hooks) |-> k]

\* enabled_hooks: the enabled hooks in configuration order.
EnabledHooks(hooks) == EnabledFrom(hooks, 1)

\* The fold over hook_results (join_all keeps the order of enabled_hooks),
\* from the n-th enabled hook on; Discard and errors end it.
RECURSIVE FoldHooks(_, _, _, _, _)
FoldHooks(st, hooks, enabled, exchanges, n) ==
    IF n > Len(enabled) \/ st.ret # "cont"
    THEN st
    ELSE FoldHooks(FoldHookResult(st, hooks[enabled[n]], exchanges[enabled[n]]),
                   hooks, enabled, exchanges, n + 1)

\* ------------------------------------------ try_delivery_hook: the result
\* What a try_delivery_hook call leaves behind: its return value (kind "some",
\* "none" or "err", with the tuple or the error), the account's mailbox tree,
\* the numbers of HTTP requests, mailbox_create_path calls and mailbox-cache
\* fetches it made, and the values should_tempfail and should_permfail had
\* when it returned.
HookResult(kind, error, st, requests) ==
    [kind |-> kind, error |-> error, mailbox_ids |-> st.mailbox_ids,
     flags |-> st.flags, skip_inbox |-> st.skip_inbox,
     modifications |-> st.modifications_out, tree |-> st.tree,
     requests |-> requests, creates |-> st.creates, fetches |-> st.fetches,
     should_tempfail |-> st.should_tempfail,
     should_permfail |-> st.should_permfail]
NoHookResult == HookResult("uncalled", NoError, FoldStart({}, {}), 0)

\* A variant of AfterFold that looks at should_permfail first.
AfterFold_PermFirst(st, requests) ==
    IF st.should_permfail
    THEN HookResult("err",
            MessageIngestError(550, "Message rejected by delivery hook"),
            st, requests)
    ELSE IF st.should_tempfail
    THEN HookResult("err",
            MessageIngestError(451, "Message temporarily rejected by delivery hook"),
            st, requests)
    ELSE HookResult("some", NoError, st, requests)

\* "Check for failures - tempfail takes precedence over permfail".
AfterFold(st, requests) ==
    IF st.should_tempfail
    THEN HookResult("err",
            MessageIngestError(451, "Message temporarily rejected by delivery hook"),
            st, requests)
    ELSE IF st.should_permfail
    THEN HookResult("err",
            MessageIngestError(550, "Message rejected by delivery hook"),
            st, requests)
    ELSE HookResult("some", NoError, st, requests)

\* What is left of the fold's locals when the function returns from inside
\* the fold: the mailboxes, flags and modifications gathered so far are dropped.
Dropped(st) ==
    [FoldStart({}, st.tree) EXCEPT !.creates = st.creates,
                                   !.fetches = st.fetches,
                                   !.should_tempfail = st.should_tempfail,
                                   !.should_permfail = st.should_permfail]

\* A variant of FoldOutcome in which a Discard does not end the function: the
\* failure flags are looked at all the same.
FoldOutcome_NoDiscard(st, requests) ==
    IF st.ret = "err" THEN HookResult("err", st.error, Dropped(st), requests)
    ELSE AfterFold(st, requests)

\* How a fold that ended ("none", "err" or ran through) becomes the result.
FoldOutcome(st, requests) ==
    IF st.ret = "none" THEN HookResult("none", NoError, Dropped(st), requests)
    ELSE IF st.ret = "err" THEN HookResult("err", st.error, Dropped(st), requests)
    ELSE AfterFold(st, requests)

\* try_delivery_hook(server, user_id, ...), for the mailbox tree of user_id
\* and the environment's choices in input.
TryDeliveryHook(hooks, tree, input) ==
    LET enabled == EnabledHooks(hooks)
        idle == FoldStart({}, tree)
    IN IF input.principal = "none"
       THEN HookResult("err",
                MessageIngestError(NoCode, "User principal not found for delivery hook"),
                idle, 0)
       ELSE IF input.principal = "err" THEN HookResult("err", StoreError, idle, 0)
       ELSE IF Len(hooks) = 0 THEN HookResult("some", NoError, idle, 0)
       ELSE IF Len(enabled) = 0 THEN HookResult("some", NoError, idle, 0)
       ELSE IF input.cache = "err"
       THEN HookResult("err", StoreError, [idle EXCEPT !.fetches = 1],
                       Len(enabled))
       ELSE FoldOutcome(FoldHooks([FoldStart(tree, tree) EXCEPT !.fetches = 1],
                                  hooks, enabled, input.exchanges, 1),
                        Len(enabled))

\* A variant of HookRequests in which every request is sent a second time.
HookRequests_Retry(hooks, result) ==
    IF result.requests > 0 THEN EnabledHooks(hooks) \o EnabledHooks(hooks) ELSE <<>>

\* The hooks (positions in delivery_hooks) a try_delivery_hook call sent an
\* HTTP request to, in order: one future per enabled hook, awaited once.
HookRequests(hooks, result) ==
    IF result.requests > 0 THEN EnabledHooks(hooks) ELSE <<>>

\* --------------------------------------------------- the message and parse
\* The raw bytes the model tells apart: the staged blob ("orig", or "garbage"
\* which the MIME parser refuses), and what a filter script writes ("edited",
\* or "broken" which the parser refuses).
Parses(bytes) == bytes \notin {"garbage", "broken"}

\* The bytes of a message with the header modifications that were applied to
\* it: the AddHeader pairs prepended, and whether ReplaceHeader changed it.
Raw(bytes, added, replaced) ==
    [bytes |-> bytes, added |-> added, replaced |-> replaced]
Unmodified(bytes) == Raw(bytes, <<>>, FALSE)

\* SieveOutputMessage
SieveOutputMessage(raw, mailbox_ids, keywords, changed, did_file_into) ==
    [raw |-> raw, mailbox_ids |-> mailbox_ids, keywords |-> keywords,
     changed |-> changed, did_file_into |-> did_file_into]

\* The single output used when the account has no active script.
DefaultOutput(raw) == SieveOutputMessage(raw, <<INBOX_ID>>, <<>>, FALSE, FALSE)

\* The output messages a filter script of the model produces.
SieveOutputs ==
    { SieveOutputMessage("orig", <<INBOX_ID>>, <<>>, FALSE, FALSE),
      SieveOutputMessage("edited", <<10>>, <<"Seen">>, TRUE, TRUE),
      SieveOutputMessage("broken", <<INBOX_ID>>, <<>>, TRUE, FALSE) }

\* AutogeneratedMessage
AutogeneratedMessage(sender_address, recipients, message) ==
    [sender_address |-> sender_address, recipients |-> recipients,
     message |-> message]

\* The message a filter script pushes onto `autogenerated` when it answers the
\* sender on behalf of the recipient.
ScriptNotice(address) == AutogeneratedMessage(address, <<"sender@y">>, "notice")

\* A result of sieve_script_ingest: Err(_), a reject, a discard, or a list of
\* output messages.
SieveKinds == {"err", "reject", "discard", "messages"}
SieveResult(kind, reject_reason, messages) ==
    [kind |-> kind, reject_reason |-> reject_reason, messages |-> messages]
\* The reasons a script of the model rejects with.
RejectReasons == {"rejected by script", "no thanks"}

\* IngestedEmail (the fields deliver_message reads).
IngestedEmail(document_id, change_id) ==
    [document_id |-> document_id, change_id |-> change_id]

\* A variant of NotIngested whose change_id is 0 instead of u64::MAX.
NotIngested_Zero == IngestedEmail(0, 0)

\* The IngestedEmail deliver_to_recipient starts from and returns when
\* nothing was stored: change_id u64::MAX.
NotIngested == IngestedEmail(0, U64_MAX)

\* trc::Result<IngestedEmail>
Ok(email) == [ok |-> TRUE, email |-> email, error |-> NoError]
Err(error) == [ok |-> FALSE, email |-> NotIngested, error |-> error]

\* The results of email_ingest: stored (a new document and change id), a
\* duplicate that is not stored again (change_id == MAX), or an error.
IngestOutcomes == {"stored", "duplicate", "quota", "tenant_quota", "err"}
\* The same without the second kind of quota.
FewIngestOutcomes == {"stored", "duplicate", "quota", "err"}
EmailIngest(outcome, seq) ==
    CASE outcome = "stored" -> Ok(IngestedEmail(seq + 1, seq + 11))
      [] outcome = "duplicate" -> Ok(NotIngested)
      [] outcome = "quota" -> Err(QuotaError)
      [] outcome = "tenant_quota" -> Err(TenantQuotaError)
      [] OTHER -> Err(StoreError)

\* ------------------------------------- deliver_to_recipient: one output
\* All orders in which a set can be iterated (HashSet::into_iter).
Orders(set) ==
    { q \in [1..Cardinality(set) -> set] : \A x \in set : \E j \in DOMAIN q : q[j] = x }

Contains(seq, x) == \E j \in DOMAIN seq : seq[j] = x
Without(seq, x) == LET Keep(y) == y # x IN SelectSeq(seq, Keep)

\* for x in items { if !list.contains(&x) { list.push(x) } }
RECURSIVE PushMissing(_, _, _)
PushMissing(list, items, j) ==
    IF j > Len(items) THEN list
    ELSE PushMissing(IF Contains(list, items[j]) THEN list
                                                 ELSE Append(list, items[j]),
                     items, j + 1)

\* Keyword::from(String), on the flags of the model.
KeywordFrom(flag) ==
    CASE flag = "$junk" -> "Junk"
      [] flag = "$deleted" -> "Deleted"
      [] flag = "$draft" -> "Draft"
      [] flag = "$seen" -> "Seen"
      [] OTHER -> flag
KeywordsFrom(flags) == [j \in DOMAIN flags |-> KeywordFrom(flags[j])]

\* The mailbox a keyword files into: Some(id) as <<id>>, None as <<>>.
TargetMailbox(keyword) ==
    CASE keyword = "Junk" -> <<JUNK_ID>>
      [] keyword = "Deleted" -> <<TRASH_ID>>
      [] keyword = "Draft" -> <<DRAFTS_ID>>
      [] OTHER -> <<>>

\* A variant of FileByFlag that adds the target and leaves INBOX in a list of
\* several mailboxes.
FileByFlag_KeepInbox(mailbox_ids, target_id) ==
    IF Len(mailbox_ids) = 1 /\ mailbox_ids[1] = INBOX_ID
    THEN <<target_id>>
    ELSE PushMissing(mailbox_ids, <<target_id>>, 1)

\* A variant of FileByFlag that files into the target alone whenever INBOX is
\* in the list.
FileByFlag_TargetAlone(mailbox_ids, target_id) ==
    IF Contains(mailbox_ids, INBOX_ID)
    THEN <<target_id>>
    ELSE PushMissing(mailbox_ids, <<target_id>>, 1)

\* A variant of FileByFlag that only takes INBOX out of a list of several
\* mailboxes, without adding the target.
FileByFlag_InboxOut(mailbox_ids, target_id) ==
    IF Len(mailbox_ids) = 1 /\ mailbox_ids[1] = INBOX_ID
    THEN <<target_id>>
    ELSE IF Contains(mailbox_ids, INBOX_ID)
    THEN Without(mailbox_ids, INBOX_ID)
    ELSE PushMissing(mailbox_ids, <<target_id>>, 1)

\* The body of the flag-based filing loop for one keyword with a target.
FileByFlag(mailbox_ids, target_id) ==
    IF Len(mailbox_ids) = 1 /\ mailbox_ids[1] = INBOX_ID
    THEN <<target_id>>
    ELSE IF Contains(mailbox_ids, INBOX_ID)
    THEN PushMissing(Without(mailbox_ids, INBOX_ID), <<target_id>>, 1)
    ELSE PushMissing(mailbox_ids, <<target_id>>, 1)

\* for keyword in &keywords, from the j-th on.
RECURSIVE FlagFiling(_, _, _)
FlagFiling(mailbox_ids, keywords, j) ==
    IF j > Len(keywords) THEN mailbox_ids
    ELSE FlagFiling(IF TargetMailbox(keywords[j]) # <<>>
                    THEN FileByFlag(mailbox_ids, TargetMailbox(keywords[j])[1])
                    ELSE mailbox_ids,
                    keywords, j + 1)

\* A variant of MergedMailboxes that drops INBOX before the hook's mailboxes
\* are pushed.
MergedMailboxes_SkipFirst(output, hook, mailbox_order) ==
    PushMissing(IF hook.skip_inbox THEN Without(output.mailbox_ids, INBOX_ID)
                                   ELSE output.mailbox_ids,
                mailbox_order, 1)

\* The merge of the hook's mailboxes, flags and skip_inbox into the output's
\* delivery parameters, followed by the flag-based filing.
MergedMailboxes(output, hook, mailbox_order) ==
    LET pushed == PushMissing(output.mailbox_ids, mailbox_order, 1)
    IN IF hook.skip_inbox THEN Without(pushed, INBOX_ID) ELSE pushed
MergedKeywords(output, flag_order) ==
    PushMissing(output.keywords, KeywordsFrom(flag_order), 1)

\* A parse tree (mail_parser::Message), told apart by the bytes it was parsed
\* from.
Message(raw) == [parsed_from |-> raw]

\* parsed_output_message: the tree of the original message for an output the
\* script left unchanged, the tree of the output's bytes otherwise.
ParsedOutputMessage(output, original) ==
    IF ~output.changed THEN Message(Unmodified(original))
    ELSE Message(Unmodified(output.raw))

\* "Separate modifications by type"
AddHeaders(mods) == LET Is(m) == m.type = "addHeader" IN SelectSeq(mods, Is)
ReplaceHeaders(mods) == LET Is(m) == m.type = "replaceHeader" IN SelectSeq(mods, Is)

\* owned_new_raw after the two header passes: None as <<>>. replaced tells
\* whether apply_replace_header_modifications returned Some.
OwnedNewRaw(output, mods, replaced) ==
    IF ReplaceHeaders(mods) # <<>> /\ replaced
    THEN << Raw(output.raw, AddHeaders(mods), TRUE) >>
    ELSE IF AddHeaders(mods) # <<>>
    THEN << Raw(output.raw, AddHeaders(mods), FALSE) >>
    ELSE <<>>

\* use_modified and raw_for_ingest: the rewritten bytes when there are any and
\* they parse again, the output's bytes otherwise.
RawForIngest(output, mods, replaced, reparse) ==
    IF OwnedNewRaw(output, mods, replaced) # <<>> /\ reparse
    THEN OwnedNewRaw(output, mods, replaced)[1]
    ELSE Unmodified(output.raw)

\* The locals of one turn of the output loop before email_ingest: mailbox_ids
\* and keywords after the merge of the hook's result (before the flag-based
\* filing), owned_new_raw after the two header passes, and whether
\* MessageParser accepted it (FALSE when there is nothing to parse).
OutputLocals(mailbox_ids, keywords, owned_new_raw, parse_ok) ==
    [mailbox_ids |-> mailbox_ids, keywords |-> keywords,
     owned_new_raw |-> owned_new_raw, parse_ok |-> parse_ok]
NoOutputLocals == OutputLocals(<<>>, <<>>, <<>>, FALSE)

\* A variant of ParsedForIngest that takes the tree of the rewritten bytes
\* whenever there are rewritten bytes.
ParsedForIngest_Always(output, original, mods, replaced, reparse) ==
    IF OwnedNewRaw(output, mods, replaced) # <<>>
    THEN Message(OwnedNewRaw(output, mods, replaced)[1])
    ELSE ParsedOutputMessage(output, original)

\* parsed_for_ingest: the tree of the output, replaced by the tree of the
\* rewritten bytes when they parse.
ParsedForIngest(output, original, mods, replaced, reparse) ==
    IF OwnedNewRaw(output, mods, replaced) # <<>> /\ reparse
    THEN Message(OwnedNewRaw(output, mods, replaced)[1])
    ELSE ParsedOutputMessage(output, original)

\* The IngestEmail handed to email_ingest (raw bytes, parse tree, mailbox
\* ids, keywords).
IngestEmail(raw, message, mailbox_ids, keywords) ==
    [raw_message |-> raw, message |-> message, mailbox_ids |-> mailbox_ids,
     keywords |-> keywords]
NoIngest == IngestEmail(Unmodified("none"), Message(Unmodified("none")), <<>>, <<>>)

\* ------------------------------------------- header rewriting: the bytes
\* Byte strings are sequences of one-character strings; CR and LF stand for
\* the bytes 13 and 10, HT for the tab.
CR == "CR"
LF == "LF"
HT == "HT"
CRLF == << CR, LF >>

\* u8::eq_ignore_ascii_case, on the letters of the model.
to_ascii_lowercase(byte) ==
    CASE byte = "X" -> "x"
      [] byte = "Y" -> "y"
      [] OTHER -> byte
byte_eq_ignore_ascii_case(a, b) == to_ascii_lowercase(a) = to_ascii_lowercase(b)

\* A variant of EncodeByte that lets the line feed through.
EncodeByte_LfThrough(byte) ==
    IF byte = CR THEN << "%", "0", "D" >> ELSE << byte >>

\* The match on one byte of a value: CR and LF are percent-encoded.
EncodeByte(byte) ==
    CASE byte = CR -> << "%", "0", "D" >>
      [] byte = LF -> << "%", "0", "A" >>
      [] OTHER -> << byte >>

\* for byte in value.bytes() { match byte { ... } }, appended to out.
RECURSIVE EncodeInto(_, _, _)
EncodeInto(out, value, j) ==
    IF j > Len(value) THEN out
    ELSE EncodeInto(out \o EncodeByte(value[j]), value, j + 1)

\* A variant of AddHeaderLines that writes the pairs last to first.
RECURSIVE AddHeaderLines_Reversed(_, _, _)
AddHeaderLines_Reversed(new_message, add_headers, i) ==
    IF i > Len(add_headers) THEN new_message
    ELSE AddHeaderLines_Reversed(
            EncodeInto(add_headers[i][1] \o << ":", " " >>, add_headers[i][2], 1)
                \o CRLF \o new_message,
            add_headers, i + 1)

\* for (name, value) in add_headers { ... }, from the i-th pair on.
RECURSIVE AddHeaderLines(_, _, _)
AddHeaderLines(new_message, add_headers, i) ==
    IF i > Len(add_headers) THEN new_message
    ELSE AddHeaderLines(
            EncodeInto(new_message \o add_headers[i][1] \o << ":", " " >>,
                       add_headers[i][2], 1) \o CRLF,
            add_headers, i + 1)

\* apply_add_header_modifications(add_headers, original_raw)
apply_add_header_modifications(add_headers, original_raw) ==
    AddHeaderLines(<<>>, add_headers, 1) \o original_raw

\* The positions (counted from 0) at which original_raw has CR LF CR LF.
BlankLines(original_raw) ==
    { p \in 0..(Len(original_raw) - 4) :
        SubSeq(original_raw, p + 1, p + 4) = CRLF \o CRLF }

\* body_start: past the first blank line, or the length when there is none.
BodyStart(original_raw) ==
    IF BlankLines(original_raw) = {} THEN Len(original_raw)
    ELSE 4 + CHOOSE p \in BlankLines(original_raw) :
                \A q \in BlankLines(original_raw) : p <= q

\* &original_raw[..body_start.saturating_sub(2)]
HeadersSection(original_raw) ==
    SubSeq(original_raw, 1,
           IF BodyStart(original_raw) < 2 THEN 0 ELSE BodyStart(original_raw) - 2)
\* &original_raw[body_start..]
BodySection(original_raw) ==
    SubSeq(original_raw, BodyStart(original_raw) + 1, Len(original_raw))

\* slice.split(|&b| b == b'\n'): the pieces between the line feeds, from byte
\* j on, with the piece gathered so far.
RECURSIVE SplitLines(_, _, _)
SplitLines(bytes, j, piece) ==
    IF j > Len(bytes) THEN << piece >>
    ELSE IF bytes[j] = LF THEN << piece >> \o SplitLines(bytes, j + 1, <<>>)
    ELSE SplitLines(bytes, j + 1, Append(piece, bytes[j]))

\* if line.ends_with(b"\r") { &line[..line.len() - 1] } else { line }
StripCr(line) ==
    IF Len(line) > 0 /\ line[Len(line)] = CR THEN SubSeq(line, 1, Len(line) - 1)
    ELSE line

\* line.iter().position(|&b| b == b':'), counted from 1; 0 when there is none.
ColonPos(line) ==
    IF \E p \in 1..Len(line) : line[p] = ":"
    THEN CHOOSE p \in 1..Len(line) :
            line[p] = ":" /\ \A q \in 1..(p - 1) : line[q] # ":"
    ELSE 0

\* The value bytes of a header line: what follows the colon, without one
\* leading space.
LineValue(line) ==
    LET rest == SubSeq(line, ColonPos(line) + 1, Len(line))
    IN IF Len(rest) > 0 /\ rest[1] = " " THEN Tail(rest) ELSE rest

\* The locals of the header parse: headers, current_name (None as <<>>,
\* Some(name) as <<name>>) and current_value.
ParseState(headers, current_name, current_value) ==
    [headers |-> headers, current_name |-> current_name,
     current_value |-> current_value]

\* The body of `for line in headers_section.split(..)` for one line.
ParseLine(ps, raw_line) ==
    LET line == StripCr(raw_line)
    IN IF line = <<>> THEN ps
       ELSE IF line[1] \in {" ", HT}
       THEN IF ps.current_name # <<>>
            THEN [ps EXCEPT !.current_value = @ \o CRLF \o line]
            ELSE ps
       ELSE LET saved ==
                  IF ps.current_name # <<>>
                  THEN ParseState(Append(ps.headers,
                                         << ps.current_name[1], ps.current_value >>),
                                  <<>>, <<>>)
                  ELSE ps
            IN IF ColonPos(line) # 0
               THEN [saved EXCEPT
                       !.current_name = << SubSeq(line, 1, ColonPos(line) - 1) >>,
                       !.current_value = @ \o LineValue(line)]
               ELSE saved

RECURSIVE ParseLines(_, _, _)
ParseLines(ps, lines, j) ==
    IF j > Len(lines) THEN ps
    ELSE ParseLines(ParseLine(ps, lines[j]), lines, j + 1)

\* The header list of original_raw: "Parse headers into mutable list of
\* (name, value) pairs" and "Save last header".
ParseHeaders(original_raw) ==
    LET ps == ParseLines(ParseState(<<>>, <<>>, <<>>),
                         SplitLines(HeadersSection(original_raw), 1, <<>>), 1)
    IN IF ps.current_name # <<>>
       THEN Append(ps.headers, << ps.current_name[1], ps.current_value >>)
       ELSE ps.headers

\* A variant of NameMatches that compares the bytes as they are.
NameMatches_CaseSensitive(name, target_name) == name = target_name

\* name.iter().zip(target_name.as_bytes()).all(|(a, b)| a.eq_ignore_ascii_case(b))
\*     && name.len() == target_name.len()
NameMatches(name, target_name) ==
    /\ \A j \in 1..(IF Len(name) < Len(target_name) THEN Len(name)
                                                     ELSE Len(target_name)) :
          byte_eq_ignore_ascii_case(name[j], target_name[j])
    /\ Len(name) = Len(target_name)

\* The locals of one replace operation while retain_mut walks the headers:
\* the headers kept so far, occurrence_count, found and had_modifications.
RetainState(kept, occurrence_count, found, had_modifications) ==
    [kept |-> kept, occurrence_count |-> occurrence_count, found |-> found,
     had_modifications |-> had_modifications]

\* A variant of RetainHeader that counts the occurrences from 0.
RetainHeader_FromZero(rs, header, op) ==
    IF NameMatches(header[1], op[2])
    THEN IF rs.occurrence_count = op[1]
         THEN IF op[3] = <<>>
              THEN [rs EXCEPT !.occurrence_count = @ + 1,
                              !.found = TRUE, !.had_modifications = TRUE]
              ELSE [rs EXCEPT !.occurrence_count = @ + 1,
                              !.found = TRUE, !.had_modifications = TRUE,
                              !.kept = Append(@, << header[1],
                                                    EncodeInto(<<>>, op[3], 1) >>)]
         ELSE [rs EXCEPT !.occurrence_count = @ + 1,
                         !.kept = Append(@, header)]
    ELSE [rs EXCEPT !.kept = Append(@, header)]

\* The closure of headers.retain_mut for one header and the operation
\* op = (target_index, target_name, new_value). occurrence_count is a u32 that
\* counts headers of one message and stays far below 2^32.
RetainHeader(rs, header, op) ==
    IF NameMatches(header[1], op[2])
    THEN IF rs.occurrence_count + 1 = op[1]
         THEN IF op[3] = <<>>
              THEN [rs EXCEPT !.occurrence_count = @ + 1,
                              !.found = TRUE, !.had_modifications = TRUE]
              ELSE [rs EXCEPT !.occurrence_count = @ + 1,
                              !.found = TRUE, !.had_modifications = TRUE,
                              !.kept = Append(@, << header[1],
                                                    EncodeInto(<<>>, op[3], 1) >>)]
         ELSE [rs EXCEPT !.occurrence_count = @ + 1,
                         !.kept = Append(@, header)]
    ELSE [rs EXCEPT !.kept = Append(@, header)]

RECURSIVE RetainHeaders(_, _, _, _)
RetainHeaders(rs, headers, op, j) ==
    IF j > Len(headers) THEN rs
    ELSE RetainHeaders(RetainHeader(rs, headers[j], op), headers, op, j + 1)

\* One turn of `for (target_index, target_name, new_value) in replace_headers`.
ReplaceOne(headers, had_modifications, op) ==
    RetainHeaders(RetainState(<<>>, 0, FALSE, had_modifications), headers, op, 1)

\* A variant of RebuildHeader that never writes a space after the colon.
RebuildHeader_NoSpace(header) ==
    header[1] \o << ":" >> \o header[2]
    \o (IF Len(header[2]) = 0 \/ header[2][Len(header[2])] # LF
        THEN CRLF ELSE <<>>)

\* The bytes written for one header when the message is rebuilt.
RebuildHeader(header) ==
    header[1]
    \o (IF Len(header[2]) > 0 /\ header[2][1] \in {" ", HT}
        THEN << ":" >> ELSE << ":", " " >>)
    \o header[2]
    \o (IF Len(header[2]) = 0 \/ header[2][Len(header[2])] # LF
        THEN CRLF ELSE <<>>)

\* "Rebuild message"
RECURSIVE RebuildHeaders(_, _)
RebuildHeaders(headers, j) ==
    IF j > Len(headers) THEN <<>>
    ELSE RebuildHeader(headers[j]) \o RebuildHeaders(headers, j + 1)
\* A variant of RebuildMessage that writes the headers in reverse order.
RebuildMessage_Reversed(headers, original_raw) ==
    RebuildHeaders([j \in 1..Len(headers) |-> headers[Len(headers) + 1 - j]], 1)
    \o CRLF \o BodySection(original_raw)

RebuildMessage(headers, original_raw) ==
    RebuildHeaders(headers, 1) \o CRLF \o BodySection(original_raw)

\* Option<Vec<u8>>
None == [some |-> FALSE, bytes |-> <<>>]
Some(bytes) == [some |-> TRUE, bytes |-> bytes]

\* apply_replace_header_modifications from the j-th operation on: the loop
\* over replace_headers with the header list and had_modifications.
RECURSIVE ReplaceFrom(_, _, _, _)
ReplaceFrom(headers, had_modifications, replace_headers, j) ==
    IF j > Len(replace_headers)
    THEN [headers |-> headers, had_modifications |-> had_modifications]
    ELSE LET rs == ReplaceOne(headers, had_modifications, replace_headers[j])
         IN ReplaceFrom(rs.kept, rs.had_modifications, replace_headers, j + 1)

\* apply_replace_header_modifications(replace_headers, original_raw, _)
apply_replace_header_modifications(replace_headers, original_raw) ==
    LET done == ReplaceFrom(ParseHeaders(original_raw), FALSE, replace_headers, 1)
    IN IF ~done.had_modifications THEN None
       ELSE Some(RebuildMessage(done.headers, original_raw))

\* add_headers and replace_headers of deliver_to_recipient: the pairs and
\* triples pushed while the modifications are separated by type.
AddHeaderPairs(mods) ==
    [j \in 1..Len(AddHeaders(mods)) |->
        << AddHeaders(mods)[j].name, AddHeaders(mods)[j].value >>]
ReplaceHeaderTriples(mods) ==
    [j \in 1..Len(ReplaceHeaders(mods)) |->
        << ReplaceHeaders(mods)[j].index, ReplaceHeaders(mods)[j].name,
           ReplaceHeaders(mods)[j].value >>]

\* A variant of RewrittenRaw that replaces headers in the output's bytes
\* first and prepends the added headers afterwards.
RewrittenRaw_ReplaceFirst(mods, raw) ==
    LET replaced == IF ReplaceHeaders(mods) # <<>>
                    THEN apply_replace_header_modifications(
                             ReplaceHeaderTriples(mods), raw)
                    ELSE None
        current_raw == IF replaced.some THEN replaced.bytes ELSE raw
    IN IF AddHeaders(mods) # <<>>
       THEN Some(apply_add_header_modifications(AddHeaderPairs(mods), current_raw))
       ELSE replaced

\* owned_new_raw after "Apply AddHeader modifications first" and "Apply
\* ReplaceHeader modifications", on the bytes of the output message.
RewrittenRaw(mods, raw) ==
    LET added == IF AddHeaders(mods) # <<>>
                 THEN Some(apply_add_header_modifications(AddHeaderPairs(mods), raw))
                 ELSE None
        current_raw == IF added.some THEN added.bytes ELSE raw
        replaced == IF ReplaceHeaders(mods) # <<>>
                    THEN apply_replace_header_modifications(
                             ReplaceHeaderTriples(mods), current_raw)
                    ELSE None
    IN IF replaced.some THEN replaced ELSE added

\* ------------------------------------------------------------------ state
VARIABLES
    \* the IngestMessage and the server's configuration and stores
    recipients,         \* message.recipients: the addresses, in order
    delivery_hooks,     \* core.smtp.session.delivery_hooks
    active_scripts,     \* the accounts that have an active filter script
    mailboxes,          \* each account's mailbox tree
    store_seq,          \* the number of messages email_ingest has stored
    \* deliver_message
    pc,                 \* where deliver_message stands
    blob,               \* the answer of get_blob ("unread" before the read)
    raw_message,        \* the bytes read from the blob store
    rcpt_idx,           \* how many recipients the for loop has taken
    account_ids,        \* account id -> index into result.status
    status,             \* result.status
    autogenerated,      \* result.autogenerated
    pushes,             \* the push notifications broadcast so far
    \* deliver_to_recipient (one call at a time)
    uid,                \* its account id
    messages,           \* the output messages still to be processed
    has_delivered,
    last_temp_error,
    final_ingested_message,
    dtr_result,         \* its return value
    \* apply_add_header_modifications / apply_replace_header_modifications
    header_pc,          \* where the call stands ("none": no call)
    header_ops,         \* add_headers, or replace_headers
    original_raw,
    headers,            \* the parsed (name, value) list
    op_idx,             \* how many replace operations have been applied
    had_modifications,
    new_message,        \* the value returned
    \* history, for stating the properties
    log,                \* per taken recipient: how it was handled
    calls,              \* per account: the calls made on its behalf
    last_output         \* the hook call and ingest of the last output message

vars == << recipients, delivery_hooks, active_scripts, mailboxes, store_seq, pc,
           blob, autogenerated, raw_message, rcpt_idx, account_ids, status, pushes, uid, messages,
           has_delivered, last_temp_error, final_ingested_message, dtr_result,
           log, calls, last_output, header_pc, header_ops, original_raw,
           headers, op_idx, had_modifications, new_message >>

\* The variables of a header rewriting call.
header_call == << header_pc, header_ops, original_raw, headers, op_idx,
                 had_modifications, new_message >>

\* The variables of deliver_message and deliver_to_recipient.
delivery == << recipients, delivery_hooks, active_scripts, mailboxes, store_seq,
              pc, blob, autogenerated, raw_message, rcpt_idx, account_ids,
              status, pushes, uid, messages, has_delivered, last_temp_error,
              final_ingested_message, dtr_result, log, calls, last_output >>

config == << recipients, delivery_hooks, active_scripts >>
frame == << uid, messages, has_delivered, last_temp_error,
            final_ingested_message, dtr_result >>

\* What the filter script answered for a recipient: nothing when it was not
\* run, else the kind of the result and the reject reason.
ScriptRun(sieve) == [kind |-> sieve.kind, reject_reason |-> sieve.reject_reason]
NoScriptRun == [kind |-> "none", reject_reason |-> ""]

\* How one recipient was handled: its address, the directory's answer
\* ("found", "notfound", "err"), the account it resolved to, whether its
\* status was copied from an earlier recipient of the account, and the result
\* of deliver_to_recipient when that ran for it, and the answer of the filter
\* script when that ran for it.
LogEntry(address, lookup, account, copied, result) ==
    [address |-> address, lookup |-> lookup, account |-> account,
     copied |-> copied, delivered |-> FALSE, script |-> NoScriptRun,
     result |-> result]

\* The calls made on behalf of an account: the numbers of deliver_to_recipient,
\* sieve_script_ingest, try_delivery_hook and email_ingest calls, of
\* try_delivery_hook calls that returned None, of email_ingest calls and of
\* stored messages, the IngestedEmail of each email_ingest call that returned
\* Ok, in order, and the hooks (positions in delivery_hooks) HTTP requests
\* were sent to, in order.
NoCalls ==
    [deliver |-> 0, script |-> 0, hook |-> 0, discards |-> 0, ingest |-> 0,
     ingested |-> <<>>, stored |-> 0, posts |-> <<>>]

\* What happened to the output message processed last: the recipient (index)
\* it was processed for, the output message, the account's mailbox tree before its
\* try_delivery_hook call, the input and result of that call, and its
\* email_ingest call (whether made, the request, the result).
OutputRecord(rcpt, output, tree, input, hook, locals, ingested, request, result) ==
    [rcpt |-> rcpt, output |-> output, tree |-> tree, input |-> input,
     hook |-> hook, locals |-> locals, ingested |-> ingested,
     request |-> request, result |-> result]
NoOutput ==
    OutputRecord(0, DefaultOutput("none"), {}, NoHookInput, NoHookResult,
                 NoOutputLocals, FALSE, NoIngest, Ok(NotIngested))

\* A variant of BlobFailure that reports one status for the whole message.
BlobFailure_One(reason) == << TemporaryFailure(reason) >>

\* ------------------------------------------------------- deliver_message
\* The status every recipient gets when the blob cannot be read.
BlobFailure(reason) == [j \in 1..Len(recipients) |-> TemporaryFailure(reason)]

\* get_blob(...): Ok(Some(raw)), Ok(None) or Err(_).
ReadBlob ==
    /\ pc = "read_blob"
    /\ \E got \in {"orig", "garbage", "not_found", "err"} :
        /\ blob' = got
        /\ raw_message' = IF got \in {"orig", "garbage"} THEN got ELSE "none"
        /\ status' = CASE got = "not_found" -> BlobFailure("Blob not found.")
                       [] got = "err" -> BlobFailure("Temporary I/O error.")
                       [] OTHER -> <<>>
        /\ pc' = IF got \in {"orig", "garbage"} THEN "next_rcpt" ELSE "done"
    /\ UNCHANGED << config, header_call, autogenerated, mailboxes, store_seq,
                    rcpt_idx, account_ids, pushes,
                    frame, log, calls, last_output >>

\* A variant of SeenStatus that never finds the account.
SeenStatus_Never(ids, sts, account_id) == <<>>

\* account_ids.get(&account_id).and_then(|pos| result.status.get(*pos)):
\* Some(status) as <<status>>, None as <<>>.
SeenStatus(ids, sts, account_id) ==
    IF account_id \in DOMAIN ids /\ ids[account_id] < Len(sts)
    THEN << sts[ids[account_id] + 1] >>
    ELSE <<>>

\* A variant of InsertSeen that records the position one too far.
InsertSeen_OffByOne(ids, sts, account_id) ==
    [a \in DOMAIN ids \cup {account_id} |->
        IF a = account_id THEN Len(sts) + 1 ELSE ids[a]]

\* account_ids.insert(account_id, result.status.len())
InsertSeen(ids, sts, account_id) ==
    [a \in DOMAIN ids \cup {account_id} |->
        IF a = account_id THEN Len(sts) ELSE ids[a]]

\* A variant of LookupFailure that reports an unknown address as transient.
LookupFailure_AllTemporary(lookup) == TemporaryFailure("Address lookup failed.")

\* The status pushed when email_to_id does not answer with an account:
\* Ok(None) ("notfound") or Err(_) ("err").
LookupFailure(lookup) ==
    IF lookup = "notfound"
    THEN PermanentFailure(<<5, 5, 0>>, "Mailbox not found.")
    ELSE TemporaryFailure("Address lookup failed.")

\* One turn of `for rcpt in message.recipients` up to the call of
\* deliver_to_recipient: the directory lookup and the account dedup.
NextRecipient ==
    /\ pc = "next_rcpt"
    /\ rcpt_idx < Len(recipients)
    /\ rcpt_idx' = rcpt_idx + 1
    /\ \E lookup \in {"ok", "err"} :
        LET address == recipients[rcpt_idx + 1]
            entry == DirectoryEntry(address)
            seen == SeenStatus(account_ids, status, entry.id)
        IN IF lookup = "err"
           THEN /\ status' = Append(status, LookupFailure("err"))
                /\ log' = Append(log, LogEntry(address, "err", 0, FALSE, Ok(NotIngested)))
                /\ UNCHANGED << pc, account_ids, uid, calls >>
           ELSE IF ~entry.found
           THEN /\ status' = Append(status, LookupFailure("notfound"))
                /\ log' = Append(log,
                             LogEntry(address, "notfound", 0, FALSE, Ok(NotIngested)))
                /\ UNCHANGED << pc, account_ids, uid, calls >>
           ELSE IF seen # <<>>
           THEN /\ status' = Append(status, seen[1])
                /\ log' = Append(log,
                             LogEntry(address, "found", entry.id, TRUE, Ok(NotIngested)))
                /\ UNCHANGED << pc, account_ids, uid, calls >>
           ELSE /\ account_ids' = InsertSeen(account_ids, status, entry.id)
                /\ uid' = entry.id
                /\ calls' = [calls EXCEPT ![entry.id].deliver = @ + 1]
                /\ log' = Append(log,
                             LogEntry(address, "found", entry.id, FALSE, Ok(NotIngested)))
                /\ pc' = "deliver"
                /\ UNCHANGED status
    /\ UNCHANGED << config, header_call, blob, autogenerated, mailboxes, store_seq,
                    raw_message, pushes, messages,
                    has_delivered, last_temp_error, final_ingested_message,
                    dtr_result, last_output >>

\* The end of the for loop: deliver_message returns result.
Finish ==
    /\ pc = "next_rcpt"
    /\ rcpt_idx = Len(recipients)
    /\ pc' = "done"
    /\ UNCHANGED << config, header_call, blob, autogenerated, mailboxes, store_seq,
                    raw_message, rcpt_idx,
                    account_ids, status, pushes, frame, log, calls, last_output >>

\* A variant of PushFor that sends the change id in the place of the email id.
PushFor_ChangeAsEmail(account_id, result) ==
    IF result.ok /\ result.email.change_id # U64_MAX
    THEN << [account_id |-> account_id, email_id |-> result.email.change_id,
             change_id |-> result.email.change_id] >>
    ELSE <<>>

\* A variant of PushFor that does not look at the change_id.
PushFor_Always(account_id, result) ==
    IF result.ok
    THEN << [account_id |-> account_id, email_id |-> result.email.document_id,
             change_id |-> result.email.change_id] >>
    ELSE <<>>

\* The push notification broadcast for a result of deliver_to_recipient:
\* none (<<>>) for an error and for change_id == u64::MAX.
PushFor(account_id, result) ==
    IF result.ok /\ result.email.change_id # U64_MAX
    THEN << [account_id |-> account_id, email_id |-> result.email.document_id,
             change_id |-> result.email.change_id] >>
    ELSE <<>>

\* A variant of StatusFor that reports every result as a success.
StatusFor_Success(result) == Success

\* The status pushed for a result of deliver_to_recipient.
StatusFor(result) == IF result.ok THEN Success ELSE ClassifyError(result.error)

\* result.status.push(match deliver_to_recipient(...).await { ... })
RecordStatus ==
    /\ pc = "returned"
    /\ pushes' = pushes \o PushFor(uid, dtr_result)
    /\ status' = Append(status, StatusFor(dtr_result))
    /\ log' = [log EXCEPT ![rcpt_idx].delivered = TRUE, ![rcpt_idx].result = dtr_result]
    /\ pc' = "next_rcpt"
    /\ UNCHANGED << config, header_call, blob, autogenerated, mailboxes, store_seq,
                    raw_message, rcpt_idx,
                    account_ids, frame, calls, last_output >>

\* --------------------------------------------------- deliver_to_recipient
\* return from deliver_to_recipient: the locals are dropped.
Return(result) ==
    /\ dtr_result' = result
    /\ messages' = <<>>
    /\ has_delivered' = FALSE
    /\ last_temp_error' = NoError
    /\ final_ingested_message' = NotIngested
    /\ pc' = "returned"

\* A variant of EarlyReturn in which a reject by the script is reported with
\* the code of a parse failure.
EarlyReturn_Reject550(token, raw, script_fetch, has_script, sieve) ==
    IF token = "err" THEN << Err(StoreError) >>
    ELSE IF token = "unauthorized" THEN << Err(UnauthorizedError) >>
    ELSE IF ~Parses(raw)
    THEN << Err(MessageIngestError(550, "Failed to parse e-mail message.")) >>
    ELSE IF script_fetch = "err" THEN << Err(StoreError) >>
    ELSE IF ~has_script THEN <<>>
    ELSE IF sieve.kind = "err" THEN << Err(StoreError) >>
    ELSE IF sieve.kind = "reject"
    THEN << Err(MessageIngestError(550, sieve.reject_reason)) >>
    ELSE IF sieve.kind = "discard" THEN << Ok(NotIngested) >>
    ELSE <<>>

\* What deliver_to_recipient does before its loop over the output messages,
\* given the access token step ("ok", "unauthorized", "err"), the fetch of the
\* active script ("ok", "err") and the result of sieve_script_ingest: an early
\* return (<<result>>) or none (<<>>).
EarlyReturn(token, raw, script_fetch, has_script, sieve) ==
    IF token = "err" THEN << Err(StoreError) >>
    ELSE IF token = "unauthorized" THEN << Err(UnauthorizedError) >>
    ELSE IF ~Parses(raw)
    THEN << Err(MessageIngestError(550, "Failed to parse e-mail message.")) >>
    ELSE IF script_fetch = "err" THEN << Err(StoreError) >>
    ELSE IF ~has_script THEN <<>>
    ELSE IF sieve.kind = "err" THEN << Err(StoreError) >>
    ELSE IF sieve.kind = "reject"
    THEN << Err(MessageIngestError(571, sieve.reject_reason)) >>
    ELSE IF sieve.kind = "discard" THEN << Ok(NotIngested) >>
    ELSE <<>>

\* Whether sieve_script_ingest is reached.
RunsScript(token, raw, script_fetch, has_script) ==
    token = "ok" /\ Parses(raw) /\ script_fetch = "ok" /\ has_script

\* let messages = ...: the script's outputs, or the message itself.
OutputMessages(raw, has_script, sieve) ==
    IF has_script THEN sieve.messages ELSE << DefaultOutput(raw) >>

\* deliver_to_recipient up to its loop: access token and permission, parse of
\* the original message, active script and its run.
DeliverToRecipientStart(max_outputs) ==
    /\ pc = "deliver"
    /\ \E token \in {"ok", "unauthorized", "err"}, script_fetch \in {"ok", "err"},
          kind \in SieveKinds, notify \in BOOLEAN :
       \E n \in 0..(IF kind = "messages" THEN max_outputs ELSE 0),
          reason \in (IF kind = "reject" THEN RejectReasons ELSE {""}) :
       \E outputs \in [1..n -> SieveOutputs] :
        LET has_script == uid \in active_scripts
            sieve == SieveResult(kind, reason, outputs)
            early == EarlyReturn(token, raw_message, script_fetch, has_script, sieve)
            runs == RunsScript(token, raw_message, script_fetch, has_script)
        IN /\ calls' = [calls EXCEPT ![uid].script = @ + IF runs THEN 1 ELSE 0]
           /\ autogenerated' =
                 IF runs /\ notify
                 THEN Append(autogenerated, ScriptNotice(recipients[rcpt_idx]))
                 ELSE autogenerated
           /\ log' = [log EXCEPT ![rcpt_idx].script =
                        IF runs THEN ScriptRun(sieve) ELSE NoScriptRun]
           /\ IF early # <<>>
              THEN Return(early[1])
              ELSE /\ messages' = OutputMessages(raw_message, has_script, sieve)
                   /\ has_delivered' = FALSE
                   /\ last_temp_error' = NoError
                   /\ final_ingested_message' = NotIngested
                   /\ pc' = "outputs"
                   /\ UNCHANGED dtr_result
    /\ last_output' = NoOutput
    /\ UNCHANGED << config, header_call, blob, mailboxes, store_seq, raw_message,
                    rcpt_idx, account_ids, status, pushes, uid >>

\* The arm Ok(result) of the match on try_delivery_hook, followed by
\* email_ingest: the request built from the output and the hook's result.
IngestRequest(output, original, hook, mailbox_order, flag_order, replaced, reparse) ==
    IngestEmail(
        RawForIngest(output, hook.modifications, replaced, reparse),
        ParsedForIngest(output, original, hook.modifications, replaced, reparse),
        FlagFiling(MergedMailboxes(output, hook, mailbox_order),
                   MergedKeywords(output, flag_order), 1),
        MergedKeywords(output, flag_order))

\* One turn of `for output_message in messages` that reaches email_ingest.
IngestOutput(output, input, hook, ingests) ==
    \E outcome \in ingests,
       mailbox_order \in Orders(hook.mailbox_ids), flag_order \in Orders(hook.flags),
       replaced \in {r \in BOOLEAN : r \/ ReplaceHeaders(hook.modifications) # <<>>},
       reparse \in {r \in BOOLEAN : r \/ hook.modifications # <<>>} :
        LET request == IngestRequest(output, raw_message, hook, mailbox_order,
                                     flag_order, replaced, reparse)
            owned_new_raw == OwnedNewRaw(output, hook.modifications, replaced)
            result == EmailIngest(outcome, store_seq)
        IN /\ last_output' = OutputRecord(rcpt_idx, output, mailboxes[uid], input,
                                           hook,
                                           OutputLocals(
                                               MergedMailboxes(output, hook,
                                                               mailbox_order),
                                               MergedKeywords(output, flag_order),
                                               owned_new_raw,
                                               owned_new_raw # <<>> /\ reparse),
                                           TRUE, request, result)
           /\ calls' = [calls EXCEPT ![uid].hook = @ + 1, ![uid].ingest = @ + 1,
                                     ![uid].posts =
                                        @ \o HookRequests(delivery_hooks, hook),
                                     ![uid].ingested =
                                        @ \o IF result.ok THEN << result.email >>
                                                          ELSE <<>>,
                                     ![uid].stored = @ + IF outcome = "stored"
                                                         THEN 1 ELSE 0]
           /\ store_seq' = store_seq + IF outcome = "stored" THEN 1 ELSE 0
           /\ has_delivered' = (has_delivered \/ result.ok)
           /\ final_ingested_message' =
                 IF result.ok THEN result.email ELSE final_ingested_message
           /\ last_temp_error' = IF result.ok THEN last_temp_error ELSE result.error
           /\ messages' = Tail(messages)
           /\ UNCHANGED << pc, dtr_result >>

\* One turn of `for output_message in messages`: parse if changed, the
\* delivery hooks, the merge, the header rewrite and email_ingest.
DeliverOutput(responses, ingests) ==
    /\ pc = "outputs"
    /\ messages # <<>>
    /\ LET output == Head(messages)
       IN IF output.changed /\ ~Parses(output.raw)
          THEN \* "Failed to parse Sieve generated message.": continue
               /\ messages' = Tail(messages)
               /\ last_output' = NoOutput
               /\ UNCHANGED << mailboxes, store_seq, calls, pc, has_delivered,
                               last_temp_error, final_ingested_message, dtr_result >>
          ELSE \E input \in HookInputs(delivery_hooks, responses) :
                LET hook == TryDeliveryHook(delivery_hooks, mailboxes[uid], input)
                IN /\ mailboxes' = [mailboxes EXCEPT ![uid] = hook.tree]
                   /\ IF hook.kind = "err"
                      THEN /\ Return(Err(hook.error))
                           /\ last_output' =
                                OutputRecord(rcpt_idx, output, mailboxes[uid],
                                             input, hook, NoOutputLocals, FALSE,
                                             NoIngest,
                                             Ok(NotIngested))
                           /\ calls' = [calls EXCEPT
                                         ![uid].hook = @ + 1,
                                         ![uid].posts =
                                            @ \o HookRequests(delivery_hooks, hook)]
                           /\ UNCHANGED store_seq
                      ELSE IF hook.kind = "none"
                      THEN /\ Return(Ok(NotIngested))
                           /\ last_output' =
                                OutputRecord(rcpt_idx, output, mailboxes[uid],
                                             input, hook, NoOutputLocals, FALSE,
                                             NoIngest,
                                             Ok(NotIngested))
                           /\ calls' = [calls EXCEPT
                                         ![uid].hook = @ + 1,
                                         ![uid].discards = @ + 1,
                                         ![uid].posts =
                                            @ \o HookRequests(delivery_hooks, hook)]
                           /\ UNCHANGED store_seq
                      ELSE IngestOutput(output, input, hook, ingests)
    /\ UNCHANGED << config, header_call, blob, autogenerated, raw_message, rcpt_idx,
                    account_ids, status, pushes,
                    uid, log >>

\* A variant of LoopResult that returns Ok whatever happened in the loop.
LoopResult_IgnoreError(delivered, last_error, final) == Ok(final)

\* After the loop: Ok(final_ingested_message) if anything was delivered or no
\* error was met, the last error otherwise.
LoopResult(delivered, last_error, final) ==
    IF delivered \/ last_error = NoError THEN Ok(final) ELSE Err(last_error)

DeliverToRecipientEnd ==
    /\ pc = "outputs"
    /\ messages = <<>>
    /\ Return(LoopResult(has_delivered, last_temp_error, final_ingested_message))
    /\ UNCHANGED << config, header_call, blob, autogenerated, mailboxes, store_seq,
                    raw_message, rcpt_idx,
                    account_ids, status, pushes, uid, log, calls, last_output >>

\* ----------------------------------------------------------- specification
\* The steps of deliver_message, with the filter-script results, hook
\* responses and email_ingest results the environment may give.
Step(max_outputs, responses, ingests) ==
    \/ ReadBlob
    \/ NextRecipient
    \/ Finish
    \/ DeliverToRecipientStart(max_outputs)
    \/ DeliverOutput(responses, ingests)
    \/ DeliverToRecipientEnd
    \/ RecordStatus

\* No header rewriting call is being followed.
NoHeaderCall ==
    /\ header_pc = "none"
    /\ header_ops = <<>>
    /\ original_raw = <<>>
    /\ headers = <<>>
    /\ op_idx = 0
    /\ had_modifications = FALSE
    /\ new_message = None

\* The state deliver_message starts in, for a message and a configuration.
Start(rcpts, hooks, scripts) ==
    /\ NoHeaderCall
    /\ recipients = rcpts
    /\ delivery_hooks = hooks
    /\ active_scripts = scripts
    /\ mailboxes = [a \in Accounts |-> BaseMailboxes]
    /\ store_seq = 0
    /\ pc = "read_blob"
    /\ blob = "unread"
    /\ autogenerated = <<>>
    /\ raw_message = "none"
    /\ rcpt_idx = 0
    /\ account_ids = <<>>
    /\ status = <<>>
    /\ pushes = <<>>
    /\ uid = 0
    /\ messages = <<>>
    /\ has_delivered = FALSE
    /\ last_temp_error = NoError
    /\ final_ingested_message = NotIngested
    /\ dtr_result = Ok(NotIngested)
    /\ log = <<>>
    /\ calls = [a \in Accounts |-> NoCalls]
    /\ last_output = NoOutput

\* The configurations of at most one hook, which is enabled.
OneHookConfigs == { h \in HookConfigs(1) : \A k \in DOMAIN h : h[k].enable }

\* deliver_message over its recipients: messages of up to MaxRcpt recipients,
\* accounts with and without filter script (a script yields at most one output
\* message), at most one delivery hook, answering with a plain verdict.
Init ==
    \E rcpts \in RcptLists(MaxRcpt), hooks \in OneHookConfigs,
       scripts \in {{}, Accounts} : Start(rcpts, hooks, scripts)
Next == Step(1, PlainOutcomes, FewIngestOutcomes)
Spec == Init /\ [][Next]_vars

\* deliver_to_recipient over its output messages: one recipient whose account
\* has a filter script yielding up to MaxOutputs output messages, at most one
\* delivery hook, answering with a plain verdict.
InitRcpt ==
    \E hooks \in OneHookConfigs : Start(<<"a@x">>, hooks, Accounts)
NextRcpt == Step(MaxOutputs, PlainOutcomes, IngestOutcomes)
SpecRcpt == InitRcpt /\ [][NextRcpt]_vars

\* The status classifier over the errors deliver_to_recipient can return:
\* every event type of the match and one it does not name, with and without
\* Code (an SMTP reply code or a smaller number) and Reason.
InitClassify ==
    \E type \in ErrorTypes, code \in NoCode..MaxCode, reason \in Reasons :
        /\ NoHeaderCall
        /\ recipients = <<"a@x">>
        /\ delivery_hooks = <<>>
        /\ active_scripts = {}
        /\ mailboxes = [a \in Accounts |-> BaseMailboxes]
        /\ store_seq = 0
        /\ pc = "returned"
        /\ blob = "orig"
        /\ autogenerated = <<>>
        /\ raw_message = "orig"
        /\ rcpt_idx = 1
        /\ account_ids = InsertSeen(<<>>, <<>>, 7)
        /\ status = <<>>
        /\ pushes = <<>>
        /\ uid = 7
        /\ messages = <<>>
        /\ has_delivered = FALSE
        /\ last_temp_error = NoError
        /\ final_ingested_message = NotIngested
        /\ dtr_result = Err(Error(type, code, reason))
        /\ log = << LogEntry("a@x", "found", 7, FALSE, Ok(NotIngested)) >>
        /\ calls = [a \in Accounts |->
                       IF a = 7 THEN [NoCalls EXCEPT !.deliver = 1] ELSE NoCalls]
        /\ last_output = NoOutput
NextClassify == RecordStatus \/ Finish
SpecClassify == InitClassify /\ [][NextClassify]_vars

\* try_delivery_hook over its hooks: one recipient without filter script,
\* every configuration of up to MaxHooks hooks, every hook outcome.
InitHook ==
    \E hooks \in HookConfigs(MaxHooks) : Start(<<"a@x">>, hooks, {})
NextHook == Step(1, HookOutcomes, IngestOutcomes)
SpecHook == InitHook /\ [][NextHook]_vars

\* The mailbox ids and keywords of the output messages of the filing
\* specification, and the answers of its hook: none, skip_inbox alone, and
\* flags with and without skip_inbox and mailboxes, the inbox among them.
FilingMailboxIds == {INBOX_ID, TRASH_ID, JUNK_ID, DRAFTS_ID, 10}
FilingKeywords == {"Junk", "Deleted", "Draft", "Seen"}
FilingOutcomes ==
    { HookResponse("accept", FALSE, {}, <<>>),
      HookResponse("accept", TRUE, {}, <<>>),
      HookResponse("accept", FALSE, {"$junk"}, <<>>),
      HookResponse("accept", TRUE, {"$deleted", "$seen"},
                   << FileInto("", "k", <<>>, FALSE) >>),
      HookResponse("accept", FALSE, {"$draft"},
                   << FileInto("Inbox", "", << "inbox" >>, FALSE) >>),
      HookResponse("accept", TRUE, {"$seen"},
                   << FileInto("Inbox", "", << "inbox" >>, FALSE),
                      FileInto("", "k", <<>>, FALSE) >>) }

\* The state in which deliver_to_recipient enters its loop with one output
\* message of the filter script.
AtOutput(output, hooks) ==
    /\ NoHeaderCall
    /\ recipients = <<"a@x">>
    /\ delivery_hooks = hooks
    /\ active_scripts = Accounts
    /\ mailboxes = [a \in Accounts |-> BaseMailboxes]
    /\ store_seq = 0
    /\ pc = "outputs"
    /\ blob = "orig"
    /\ autogenerated = <<>>
    /\ raw_message = "orig"
    /\ rcpt_idx = 1
    /\ account_ids = InsertSeen(<<>>, <<>>, 7)
    /\ status = <<>>
    /\ pushes = <<>>
    /\ uid = 7
    /\ messages = << output >>
    /\ has_delivered = FALSE
    /\ last_temp_error = NoError
    /\ final_ingested_message = NotIngested
    /\ dtr_result = Ok(NotIngested)
    /\ log = << [LogEntry("a@x", "found", 7, FALSE, Ok(NotIngested))
                   EXCEPT !.script = ScriptRun(SieveResult("messages", "", <<>>))] >>
    /\ calls = [a \in Accounts |->
                   IF a = 7 THEN [NoCalls EXCEPT !.deliver = 1, !.script = 1]
                   ELSE NoCalls]
    /\ last_output = NoOutput

\* The merge and the flag-based filing of deliver_to_recipient over the output
\* messages: every list of up to MaxMailboxes mailbox ids and up to
\* MaxKeywords keywords, at most one delivery hook, answering with flags.
InitFiling ==
    \E n \in 0..MaxMailboxes, m \in 0..MaxKeywords, hooks \in OneHookConfigs :
    \E mailbox_ids \in [1..n -> FilingMailboxIds],
       keywords \in [1..m -> FilingKeywords] :
        AtOutput(SieveOutputMessage("orig", mailbox_ids, keywords, FALSE, TRUE),
                 hooks)
NextFiling ==
    \/ DeliverOutput(FilingOutcomes, {"stored", "err"})
    \/ DeliverToRecipientEnd
    \/ RecordStatus
    \/ Finish
SpecFiling == InitFiling /\ [][NextFiling]_vars

\* The answers of the hooks of the filing-target specification: Accept with a
\* FileInto whose mailbox_id exists ("k"), parses without existing ("l", the
\* id the first created mailbox gets) or does not parse ("bad"); whose
\* special_use is inbox or trash in any case, a role with or without a
\* mailbox, or no role; whose folder exists or not; with and without create.
FileIntoOutcomes ==
    { HookResponse("accept", FALSE, {}, << FileInto("Junk Mail", "k", << "inbox" >>, FALSE) >>),
      HookResponse("accept", FALSE, {}, << FileInto("Work", "l", << "INBOX" >>, FALSE) >>),
      HookResponse("accept", FALSE, {}, << FileInto("Work", "bad", << "Trash" >>, FALSE) >>),
      HookResponse("accept", FALSE, {}, << FileInto("Work", "", << "Junk" >>, FALSE) >>),
      HookResponse("accept", FALSE, {}, << FileInto("Work", "", << "archive" >>, FALSE) >>),
      HookResponse("accept", FALSE, {}, << FileInto("Work", "l", << "bogus" >>, FALSE) >>),
      HookResponse("accept", FALSE, {}, << FileInto("Nope", "", <<>>, FALSE) >>),
      HookResponse("accept", FALSE, {}, << FileInto("Nope", "l", << "archive" >>, FALSE) >>),
      HookResponse("accept", FALSE, {}, << FileInto("New", "", <<>>, TRUE) >>),
      HookResponse("accept", FALSE, {}, << FileInto("New", "k", <<>>, TRUE) >>),
      HookResponse("accept", FALSE, {}, << FileInto("New", "bad", << "INBOX" >>, TRUE) >>),
      HookResponse("accept", FALSE, {}, << FileInto("Work", "", <<>>, TRUE) >>),
      HookResponse("accept", FALSE, {},
                   << FileInto("New", "", <<>>, TRUE), FileInto("New", "", <<>>, FALSE) >>) }

\* The configurations of at most n hooks, all enabled.
EnabledHookConfigs(n) ==
    { h \in HookConfigs(n) : \A k \in DOMAIN h : h[k].enable }

\* try_delivery_hook resolving the FileInto modifications of up to MaxHooks
\* hooks for one output message.
InitFileInto ==
    \E hooks \in EnabledHookConfigs(MaxHooks) : AtOutput(DefaultOutput("orig"), hooks)
NextFileInto ==
    \/ DeliverOutput(FileIntoOutcomes, {"stored"})
    \/ DeliverToRecipientEnd
    \/ RecordStatus
    \/ Finish
SpecFileInto == InitFileInto /\ [][NextFileInto]_vars

\* The answers of the hook of the modification specification: header
\* modifications of one kind, of both kinds interleaved, and none.
ModifyOutcomes ==
    { HookResponse("accept", FALSE, {}, <<>>),
      HookResponse("accept", FALSE, {}, << AddHeader("X-A", "1") >>),
      HookResponse("accept", FALSE, {}, << ReplaceHeader(1, "Subject", "s") >>),
      HookResponse("accept", FALSE, {},
                   << ReplaceHeader(1, "Subject", "s"), AddHeader("X-A", "1"),
                      ReplaceHeader(2, "X-A", ""), AddHeader("X-B", "2") >>) }

\* The header modifications of deliver_to_recipient and the choice of the
\* bytes and parse tree for email_ingest, over the output messages of the
\* model and at most one delivery hook.
InitModify ==
    \E output \in SieveOutputs, hooks \in OneHookConfigs : AtOutput(output, hooks)
NextModify ==
    \/ DeliverOutput(ModifyOutcomes, {"stored", "err"})
    \/ DeliverToRecipientEnd
    \/ RecordStatus
    \/ Finish
SpecModify == InitModify /\ [][NextModify]_vars

\* ------------------------------------------------------ header rewriting
\* apply_add_header_modifications(add_headers, original_raw)
ApplyAddHeaders ==
    /\ header_pc = "add"
    /\ new_message' = Some(apply_add_header_modifications(header_ops, original_raw))
    /\ header_pc' = "returned"
    /\ UNCHANGED << delivery, header_ops, original_raw, headers, op_idx,
                    had_modifications >>

\* apply_replace_header_modifications up to its loop over the operations:
\* the header/body boundary and the header list.
ParseRawHeaders ==
    /\ header_pc = "replace"
    /\ headers' = ParseHeaders(original_raw)
    /\ header_pc' = "ops"
    /\ UNCHANGED << delivery, header_ops, original_raw, op_idx,
                    had_modifications, new_message >>

\* One turn of the loop over replace_headers.
ReplaceHeaderOp ==
    /\ header_pc = "ops"
    /\ op_idx < Len(header_ops)
    /\ LET rs == ReplaceOne(headers, had_modifications, header_ops[op_idx + 1])
       IN /\ headers' = rs.kept
          /\ had_modifications' = rs.had_modifications
    /\ op_idx' = op_idx + 1
    /\ UNCHANGED << delivery, header_pc, header_ops, original_raw, new_message >>

\* After the loop: None without modifications, the rebuilt message otherwise.
ReplaceHeadersReturn ==
    /\ header_pc = "ops"
    /\ op_idx = Len(header_ops)
    /\ new_message' = IF ~had_modifications THEN None
                      ELSE Some(RebuildMessage(headers, original_raw))
    /\ header_pc' = "returned"
    /\ UNCHANGED << delivery, header_ops, original_raw, headers, op_idx,
                    had_modifications >>

\* The raw messages of the header rewriting specifications: headers whose
\* names differ in case only, a body; one name three times, no body; a folded
\* header and a line without colon; no blank line after the headers; bare LF
\* line ends with the blank line LF LF before the body; two spaces, nothing
\* and a tab after the colon, and a bare LF among CRLF line ends.
RawMessages ==
    { << "X", ":", " ", " ", "a", CR, LF, "Y", ":", CR, LF,
         "x", ":", " ", "c", LF, "Y", ":", HT, "b", CR, LF, CR, LF, "B" >>,
      << "X", ":", " ", "a", LF, "Y", ":", " ", "b", LF, LF, "B" >>,
      << "X", ":", " ", "a", CR, LF, "Y", ":", " ", "b", CR, LF,
         "x", ":", " ", "c", CR, LF, CR, LF, "B" >>,
      << "X", ":", " ", "a", CR, LF, "X", ":", " ", "b", CR, LF,
         "X", ":", " ", "c", CR, LF, CR, LF >>,
      << "Y", ":", " ", "b", CR, LF, HT, "d", CR, LF, "n", "o", CR, LF,
         "X", ":", "a", CR, LF, CR, LF, "B" >>,
      << "X", ":", " ", "a", CR, LF, "Y", ":", " ", "b", "c", "d" >> }

\* The header names and values of the model: values without and with CR and
\* LF, among them "ok" CR LF "Evil: injected" in short.
HeaderNames == { << "X" >>, << "x" >>, << "Y" >> }
HeaderValues ==
    { <<>>, << "n" >>, << "o", CR, LF, "E", ":", " ", "i" >>,
      << LF, "n", CR >>, << "%", "0", "D" >> }

\* The names of the AddHeader pairs: those above, and one with a line end in
\* it (the name is a string of the hook's JSON response).
AddHeaderNames == HeaderNames \cup { << "Y", CR, LF >> }

\* The new values of the ReplaceHeader operations: empty (delete), plain, and
\* with CR and LF.
NewValues == { <<>>, << "n" >>, << "o", CR, LF, "E" >> }

\* The call of a header rewriting function with its arguments.
HeaderCall(which, ops, raw) ==
    /\ header_pc = which
    /\ header_ops = ops
    /\ original_raw = raw
    /\ headers = <<>>
    /\ op_idx = 0
    /\ had_modifications = FALSE
    /\ new_message = None

\* deliver_message is not running.
NoDelivery ==
    /\ recipients = <<>>
    /\ delivery_hooks = <<>>
    /\ active_scripts = {}
    /\ mailboxes = [a \in Accounts |-> BaseMailboxes]
    /\ store_seq = 0
    /\ pc = "done"
    /\ blob = "unread"
    /\ autogenerated = <<>>
    /\ raw_message = "none"
    /\ rcpt_idx = 0
    /\ account_ids = <<>>
    /\ status = <<>>
    /\ pushes = <<>>
    /\ uid = 0
    /\ messages = <<>>
    /\ has_delivered = FALSE
    /\ last_temp_error = NoError
    /\ final_ingested_message = NotIngested
    /\ dtr_result = Ok(NotIngested)
    /\ log = <<>>
    /\ calls = [a \in Accounts |-> NoCalls]
    /\ last_output = NoOutput

\* apply_add_header_modifications over every list of up to MaxAdds pairs and
\* every raw message of the model (and the empty one).
InitAdd ==
    \E n \in 0..MaxAdds, raw \in RawMessages \cup {<<>>} :
    \E add_headers \in [1..n -> AddHeaderNames \X HeaderValues] :
        NoDelivery /\ HeaderCall("add", add_headers, raw)
NextAdd == ApplyAddHeaders
SpecAdd == InitAdd /\ [][NextAdd]_vars

\* apply_replace_header_modifications over every list of up to MaxOps
\* operations with indexes 0..MaxIndex and every raw message of the model.
InitReplace ==
    \E n \in 0..MaxOps, raw \in RawMessages :
    \E replace_headers \in [1..n -> (0..MaxIndex) \X HeaderNames \X NewValues] :
        NoDelivery /\ HeaderCall("replace", replace_headers, raw)
NextReplace == ParseRawHeaders \/ ReplaceHeaderOp \/ ReplaceHeadersReturn
SpecReplace == InitReplace /\ [][NextReplace]_vars

\* The two header passes of deliver_to_recipient on the bytes of one output
\* message: owned_new_raw for the hooks' modification list.
RewriteHeaders ==
    /\ header_pc = "rewrite"
    /\ new_message' = RewrittenRaw(header_ops, original_raw)
    /\ header_pc' = "returned"
    /\ UNCHANGED << delivery, header_ops, original_raw, headers, op_idx,
                    had_modifications >>

\* The header modifications of the rewrite specification: AddHeader and
\* ReplaceHeader over names that differ in case only, with a value that
\* holds CR and LF and with the empty value that deletes.
HeaderModifications ==
    { AddHeader(<< "X" >>, << "n" >>),
      AddHeader(<< "y" >>, << "o", CR, LF, "E" >>),
      ReplaceHeader(1, << "x" >>, << "r" >>),
      ReplaceHeader(2, << "X" >>, <<>>),
      ReplaceHeader(2, << "Y" >>, << "s" >>),
      ReplaceHeader(4, << "x" >>, << "t" >>) }

\* The header passes over every list of up to MaxModifications modifications
\* and every raw message of the model.
InitRewrite ==
    \E n \in 0..MaxModifications, raw \in RawMessages :
    \E mods \in [1..n -> HeaderModifications] :
        NoDelivery /\ HeaderCall("rewrite", mods, raw)
NextRewrite == RewriteHeaders
SpecRewrite == InitRewrite /\ [][NextRewrite]_vars

\* ============================================================= properties
\* The recipients whose turn of the for loop has been taken.
Taken == 1..Len(log)

\* The recipients that resolved to account a (directory lookup succeeded).
ResolvedTo(a) == { i \in Taken : log[i].lookup = "found" /\ log[i].account = a }

\* The first recipient that resolved to account a.
FirstOf(a) == CHOOSE i \in ResolvedTo(a) : \A j \in ResolvedTo(a) : i <= j

\* -------------------------------------------------------- deliver_message
\* C1: the result of deliver_message holds exactly one status per input
\* recipient, in input order: status[i] is the outcome of recipients[i]. While
\* the loop runs there is one status per recipient already handled; when the
\* blob could not be read every recipient has the same temporary failure;
\* otherwise status[i] is "Mailbox not found." exactly when the directory does
\* not know recipients[i], "Address lookup failed." when its lookup failed,
\* Success exactly when deliver_to_recipient returned Ok for it, and the
\* status of the account's first recipient when it is a later one.
C1_OneStatusPerRecipient ==
    /\ pc = "done" => Len(status) = Len(recipients)
    /\ pc # "done" =>
          Len(status) = rcpt_idx - (IF pc \in {"deliver", "outputs", "returned"}
                                    THEN 1 ELSE 0)
    /\ \A i \in 1..Len(status) :
          IF log = <<>>
          THEN /\ status[i].variant = "TemporaryFailure"
               /\ status[i].reason \in {"Blob not found.", "Temporary I/O error."}
               /\ status[i] = status[1]
          ELSE /\ log[i].address = recipients[i]
               /\ (log[i].lookup = "notfound") =
                     (status[i] = PermanentFailure(<<5, 5, 0>>, "Mailbox not found."))
               /\ log[i].lookup = "notfound" => ~DirectoryEntry(recipients[i]).found
               /\ log[i].lookup = "found" =>
                     /\ DirectoryEntry(recipients[i]).found
                     /\ DirectoryEntry(recipients[i]).id = log[i].account
               /\ log[i].lookup = "err" =>
                     status[i] = TemporaryFailure("Address lookup failed.")
               /\ log[i].lookup = "found" => (log[i].delivered # log[i].copied)
               /\ log[i].delivered => (log[i].result.ok = (status[i] = Success))
               /\ log[i].copied => status[i] = status[FirstOf(log[i].account)]

\* A message of two recipients, the first delivered, the second unknown.
C1_Witness ==
    /\ pc = "done"
    /\ Len(log) = 2 /\ Len(status) = 2
    /\ log[1].delivered /\ status[1] = Success
    /\ log[2].lookup = "notfound" /\ status[2].variant = "PermanentFailure"

\* C2: two recipients that resolve to the same account id have equal statuses.
C2_SameAccountSameStatus ==
    \A i, j \in 1..Len(status) :
        ( /\ log # <<>>
          /\ log[i].lookup = "found" /\ log[j].lookup = "found"
          /\ DirectoryEntry(recipients[i]).id = DirectoryEntry(recipients[j]).id )
        => status[i] = status[j]

\* Two different addresses of one account, both failed temporarily.
C2_Witness ==
    /\ pc = "done"
    /\ Len(log) = 2 /\ Len(status) = 2
    /\ recipients[1] # recipients[2]
    /\ log[1].lookup = "found" /\ log[2].lookup = "found"
    /\ log[1].account = log[2].account
    /\ status[2].variant = "TemporaryFailure"

\* C3: deliver_to_recipient is invoked at most once per distinct account id,
\* and the step that takes a later recipient resolving to an account already
\* delivered to appends a copy of the first status of that account without
\* any call of deliver_to_recipient, a script, a hook or email_ingest.
C3_OneDeliveryPerAccount ==
    [][ /\ \A a \in Accounts : calls'[a].deliver <= 1
        /\ ( /\ rcpt_idx' = rcpt_idx + 1
             /\ log'[rcpt_idx'].lookup = "found"
             /\ ResolvedTo(log'[rcpt_idx'].account) # {} )
           => /\ calls' = calls
              /\ pc' = "next_rcpt"
              /\ status' = Append(status,
                                  status[FirstOf(log'[rcpt_idx'].account)]) ]_vars

\* A second recipient of an account whose first delivery stored the message.
C3_Witness ==
    /\ pc = "done"
    /\ Len(log) = 2 /\ Len(status) = 2
    /\ log[2].copied
    /\ calls[log[2].account].deliver = 1
    /\ calls[log[2].account].stored = 1
    /\ status[2] = Success

\* C10: a push notification is broadcast for a recipient exactly when
\* deliver_to_recipient returned success with a change_id other than
\* u64::MAX for it: none for recipients that failed, were discarded, or were
\* handled as duplicates of an account.
Notified(i) ==
    /\ log[i].delivered
    /\ log[i].result.ok
    /\ log[i].result.email.change_id # U64_MAX
NotificationOf(i) ==
    [account_id |-> log[i].account, email_id |-> log[i].result.email.document_id,
     change_id |-> log[i].result.email.change_id]
C10_PushIffStored ==
    /\ Len(pushes) = Cardinality({ i \in Taken : Notified(i) })
    /\ \A i \in Taken : Notified(i) =>
          \E j \in 1..Len(pushes) : pushes[j] = NotificationOf(i)
    /\ \A j \in 1..Len(pushes) :
          \E i \in Taken : Notified(i) /\ pushes[j] = NotificationOf(i)
    /\ \A i \in Taken :
          (log[i].copied \/ (i <= Len(status) /\ status[i] # Success)) =>
              ~Notified(i)

\* Two accounts: the first got the message stored (one notification), the
\* second succeeded without anything new being stored (no notification).
C10_Witness ==
    /\ pc = "done"
    /\ Len(log) = 2 /\ Len(status) = 2
    /\ Len(pushes) = 1
    /\ log[1].delivered /\ log[2].delivered
    /\ Notified(1)
    /\ status[2] = Success
    /\ log[2].result.email.change_id = U64_MAX

\* --------------------------------------------------- deliver_to_recipient
\* C4: within one recipient, if at least one output message is ingested
\* successfully, the recipient's status is Success; an error status is
\* returned only if no output was ingested.
C4_IngestedMeansSuccess ==
    \A i \in Taken :
        (log[i].delivered /\ i <= Len(status)) =>
            /\ calls[log[i].account].stored > 0 => status[i] = Success
            /\ status[i] # Success => calls[log[i].account].stored = 0

\* The recipient for which the output message processed last was processed.
LastRcpt == last_output.rcpt

\* The orchestrator returned None (a hook discarded) for the output message
\* processed last.
HookDiscarded == last_output.rcpt # 0 /\ last_output.hook.kind = "none"

\* The push notifications broadcast for account a.
PushesFor(a) == { j \in 1..Len(pushes) : pushes[j].account_id = a }

\* C6 as stated: when the orchestrator returns None for a recipient, the
\* recipient's status is Success with change_id == MAX, no email_ingest call
\* is made for that recipient, and no push notification is broadcast for it.
C6_DiscardNoIngestForRecipient ==
    HookDiscarded =>
        /\ calls[log[LastRcpt].account].ingest = 0
        /\ pc = "returned" =>
              dtr_result.ok /\ dtr_result.email.change_id = U64_MAX
        /\ log[LastRcpt].delivered =>
              /\ status[LastRcpt] = Success
              /\ log[LastRcpt].result.email.change_id = U64_MAX
              /\ PushesFor(log[LastRcpt].account) = {}

\* C6, amended: when the orchestrator returns None for an output message of a
\* recipient, deliver_to_recipient returns at once: no email_ingest call is
\* made for that output message or any later one (earlier output messages of
\* the recipient may have been ingested), the recipient's status is Success
\* with change_id == MAX, and no push notification is broadcast for it.
C6_DiscardEndsDelivery ==
    HookDiscarded =>
        /\ ~last_output.ingested
        /\ calls[log[LastRcpt].account].ingest < calls[log[LastRcpt].account].hook
        /\ pc \in {"returned", "next_rcpt", "done"}
        /\ rcpt_idx = LastRcpt => messages = <<>>
        /\ pc = "returned" =>
              dtr_result.ok /\ dtr_result.email.change_id = U64_MAX
        /\ log[LastRcpt].delivered =>
              /\ status[LastRcpt] = Success
              /\ log[LastRcpt].result.email.change_id = U64_MAX
              /\ PushesFor(log[LastRcpt].account) = {}

\* A recipient whose first output message was stored and whose second was
\* discarded by a hook.
C6_Witness ==
    /\ pc = "done"
    /\ HookDiscarded
    /\ calls[log[LastRcpt].account].stored = 1
    /\ calls[log[LastRcpt].account].hook = 2
    /\ status[LastRcpt] = Success
    /\ pushes = <<>>

\* ------------------------------------------------------ try_delivery_hook
\* The try_delivery_hook call made for the output message processed last: its
\* configuration is delivery_hooks, its input and result are in last_output.
HookCalled == last_output.hook.kind # "uncalled"
Exchanged(k) == last_output.input.exchanges[k]
HookIds == 1..Len(delivery_hooks)

\* What hook k, if enabled and asked, did in that call.
Answered(k, action) ==
    /\ delivery_hooks[k].enable
    /\ Exchanged(k).response.ok
    /\ Exchanged(k).response.action = action
Failed(k) ==
    /\ delivery_hooks[k].enable
    /\ ~Exchanged(k).response.ok
    /\ Exchanged(k).response.action = "none"
NoDiscard == \A k \in HookIds : ~Answered(k, "discard")

\* A hook whose failure or rejection asks for a temporary failure, and one
\* whose rejection asks for a permanent failure.
AsksTempfail(k) ==
    delivery_hooks[k].tempfail_on_error /\ (Failed(k) \/ Answered(k, "reject"))
AsksPermfail(k) ==
    ~delivery_hooks[k].tempfail_on_error /\ Answered(k, "reject")

\* The mailbox creation asked for by hook k, or the cache refresh after it,
\* failed.
CreateFailed(k) ==
    delivery_hooks[k].enable /\ Exchanged(k).create \in {"err", "refresh_err"}
CacheFailed == last_output.input.cache = "err"

Is451 ==
    /\ last_output.hook.kind = "err"
    /\ last_output.hook.error =
          MessageIngestError(451, "Message temporarily rejected by delivery hook")
Is550 ==
    /\ last_output.hook.kind = "err"
    /\ last_output.hook.error =
          MessageIngestError(550, "Message rejected by delivery hook")
IsStoreError ==
    last_output.hook.kind = "err" /\ last_output.hook.error = StoreError

\* C5 as stated: if any enabled hook answers successfully with Discard, the
\* function returns None, whatever the other hooks returned.
C5_DiscardAlwaysWins ==
    (HookCalled /\ ~NoDiscard) => last_output.hook.kind = "none"

\* C5, amended: if any enabled hook answers successfully with Discard, the
\* function returns None whatever verdicts, transport errors, tempfail
\* settings, filings and header modifications the other hooks returned,
\* unless the mailbox-cache fetch fails or a mailbox creation (or the cache
\* refresh after it) fails for a FileInto of the discarding hook or of a hook
\* before it in configuration order: then that error is returned.
C5_DiscardWinsUnlessStoreError ==
    (HookCalled /\ ~NoDiscard) =>
        LET first == CHOOSE d \in HookIds :
                        /\ Answered(d, "discard")
                        /\ \A k \in HookIds : Answered(k, "discard") => d <= k
        IN IF CacheFailed \/ \E k \in 1..first : CreateFailed(k)
           THEN IsStoreError
           ELSE last_output.hook.kind = "none"

\* One hook rejects, a later one discards: the function returned None.
C5_Witness ==
    /\ HookCalled
    /\ Len(delivery_hooks) = 2
    /\ Answered(1, "reject")
    /\ Answered(2, "discard")
    /\ last_output.hook.kind = "none"
    /\ last_output.hook.should_permfail

\* C7 as stated: when no hook discards, tempfail strictly dominates permfail:
\* if any hook set should_tempfail the function returns the error with code
\* 451, even when another hook with tempfail_on_error=false rejected; code
\* 550 is returned only when should_permfail is set and should_tempfail is not.
C7_TempfailAlwaysDominates ==
    (HookCalled /\ NoDiscard) =>
        /\ last_output.hook.should_tempfail => Is451
        /\ Is550 => ( /\ last_output.hook.should_permfail
                      /\ ~last_output.hook.should_tempfail )

\* The mailbox-cache fetch or a mailbox creation of the call failed.
StoreFailed == CacheFailed \/ \E k \in HookIds : CreateFailed(k)

\* C7, amended: when no hook discards and neither the mailbox-cache fetch nor
\* a mailbox creation fails, tempfail strictly dominates permfail: if any
\* failed or rejecting hook has tempfail_on_error=true the function returns
\* the error with code 451, even when another hook with
\* tempfail_on_error=false rejected; code 550 is returned exactly when a hook
\* with tempfail_on_error=false rejected and no hook asked for a temporary
\* failure. When the cache fetch or a mailbox creation fails, that error is
\* returned whatever should_tempfail and should_permfail are.
C7_TempfailDominatesPermfail ==
    (HookCalled /\ last_output.input.principal = "ok" /\ NoDiscard) =>
        LET temp == \E k \in HookIds : AsksTempfail(k)
            perm == \E k \in HookIds : AsksPermfail(k)
        IN /\ Is550 => (perm /\ ~temp)
           /\ IF StoreFailed
              THEN IsStoreError
              ELSE /\ last_output.hook.should_tempfail = temp
                   /\ last_output.hook.should_permfail = perm
                   /\ temp => Is451
                   /\ (~temp /\ perm) => Is550
                   /\ (~temp /\ ~perm) => last_output.hook.kind = "some"

\* One hook with tempfail_on_error=false rejects, another with
\* tempfail_on_error=true fails: the function returned 451.
C7_Witness ==
    /\ HookCalled
    /\ NoDiscard
    /\ ~StoreFailed
    /\ \E k \in HookIds : AsksPermfail(k)
    /\ \E k \in HookIds : AsksTempfail(k) /\ Failed(k)
    /\ Is451

\* The configuration and the input of the call without hook k.
RemoveAt(seq, k) == [j \in 1..(Len(seq) - 1) |-> IF j < k THEN seq[j] ELSE seq[j + 1]]
InputWithout(k) ==
    [last_output.input EXCEPT !.exchanges = RemoveAt(@, k)]

\* Two results of try_delivery_hook are the same return value and leave the
\* same mailbox tree.
SameReturn(a, b) ==
    /\ a.kind = b.kind
    /\ a.error = b.error
    /\ a.mailbox_ids = b.mailbox_ids
    /\ a.flags = b.flags
    /\ a.skip_inbox = b.skip_inbox
    /\ a.modifications = b.modifications
    /\ a.tree = b.tree

\* C8 as stated: a hook that fails is routed by its own tempfail_on_error:
\* with the flag false the failure is ignored and the result equals the
\* result with that hook absent; with the flag true (and no Discard from
\* another hook) the function returns error 451.
C8_FailedHookRouted ==
    HookCalled =>
        \A k \in HookIds : Failed(k) =>
            IF delivery_hooks[k].tempfail_on_error
            THEN NoDiscard => Is451
            ELSE SameReturn(last_output.hook,
                            TryDeliveryHook(RemoveAt(delivery_hooks, k),
                                            last_output.tree, InputWithout(k)))

\* C8, amended: a hook that fails is routed by its own tempfail_on_error,
\* provided the mailbox-cache fetch succeeds: with the flag false the failure
\* is ignored and the result equals the result with that hook absent; with
\* the flag true, no Discard from another hook and no failing mailbox
\* creation, the function returns error 451. When the cache fetch or a
\* mailbox creation fails, that error is returned instead.
C8_FailedHookRoutedUnlessStoreError ==
    HookCalled =>
        \A k \in HookIds : Failed(k) =>
            IF CacheFailed THEN IsStoreError
            ELSE IF delivery_hooks[k].tempfail_on_error
            THEN NoDiscard => IF StoreFailed THEN IsStoreError ELSE Is451
            ELSE SameReturn(last_output.hook,
                            TryDeliveryHook(RemoveAt(delivery_hooks, k),
                                            last_output.tree, InputWithout(k)))

\* A failed hook with tempfail_on_error=false next to a hook that accepts and
\* files the message: the filing is returned.
C8_Witness ==
    /\ HookCalled
    /\ \E k \in HookIds : Failed(k) /\ ~delivery_hooks[k].tempfail_on_error
    /\ last_output.hook.kind = "some"
    /\ last_output.hook.mailbox_ids # {}

\* C9 as stated: when a hook answers with a Reject response and no hook
\* discards, try_delivery_hook fails with code 451 "Message temporarily
\* rejected by delivery hook" if that hook has tempfail_on_error=true and
\* otherwise with code 550 "Message rejected by delivery hook"; in both cases
\* email_ingest is not called for that output message.
C9_RejectByOwnFlag ==
    (HookCalled /\ NoDiscard) =>
        \A k \in HookIds : Answered(k, "reject") =>
            /\ IF delivery_hooks[k].tempfail_on_error THEN Is451 ELSE Is550
            /\ ~last_output.ingested

\* C9, amended: when a hook answers with a Reject response and no hook
\* discards, try_delivery_hook fails and email_ingest is not called for that
\* output message; unless the mailbox-cache fetch or a mailbox creation fails
\* (then that error is returned), the error has code 451 "Message temporarily
\* rejected by delivery hook" if that hook or any other failed or rejecting
\* hook has tempfail_on_error=true, and otherwise code 550 "Message rejected
\* by delivery hook".
C9_RejectFails ==
    (HookCalled /\ NoDiscard) =>
        \A k \in HookIds : Answered(k, "reject") =>
            /\ last_output.hook.kind = "err"
            /\ ~last_output.ingested
            /\ IF StoreFailed THEN IsStoreError
               ELSE IF \E j \in HookIds : AsksTempfail(j) THEN Is451
               ELSE Is550

\* A hook with tempfail_on_error=false rejects while another hook with
\* tempfail_on_error=true fails: 451, and nothing is ingested.
C9_Witness ==
    /\ HookCalled
    /\ NoDiscard
    /\ ~StoreFailed
    /\ \E k \in HookIds : Answered(k, "reject") /\ ~delivery_hooks[k].tempfail_on_error
    /\ \E j \in HookIds : Failed(j) /\ delivery_hooks[j].tempfail_on_error
    /\ Is451
    /\ ~last_output.ingested
    /\ pc = "done"

\* ------------------------------------------------ failures before delivery
\* Nothing was done for any recipient: no directory lookup, no call of
\* deliver_to_recipient, no filter script run, no hook call, no email_ingest,
\* no push notification.
NothingDone ==
    /\ log = <<>>
    /\ rcpt_idx = 0
    /\ calls = [a \in Accounts |-> NoCalls]
    /\ store_seq = 0
    /\ pushes = <<>>

\* C11: when get_blob answers "not found", every recipient's status is
\* TemporaryFailure "Blob not found." and autogenerated is empty; when it
\* answers with an error, every recipient's status is TemporaryFailure
\* "Temporary I/O error."; in both cases deliver_message returns without a
\* directory lookup, script run, hook call, ingest or push notification.
C11_BlobFailure ==
    /\ blob = "not_found" =>
          /\ status = [j \in 1..Len(recipients) |->
                          TemporaryFailure("Blob not found.")]
          /\ autogenerated = <<>>
    /\ blob = "err" =>
          /\ status = [j \in 1..Len(recipients) |->
                          TemporaryFailure("Temporary I/O error.")]
          /\ autogenerated = <<>>
    /\ blob \in {"not_found", "err"} => pc = "done" /\ NothingDone

\* A message of two recipients whose blob is not found.
C11_Witness ==
    /\ blob = "not_found"
    /\ Len(recipients) = 2
    /\ Len(status) = 2

\* The recipients whose directory lookup did not answer with an account.
Unresolved == { i \in Taken : log[i].lookup # "found" }

\* The status a recipient with an account ends with: the one of the account's
\* first recipient when copied, else the one of its own delivery.
AccountStatus(j) ==
    IF log[j].copied THEN status[FirstOf(log[j].account)]
    ELSE IF log[j].result.ok THEN Success
    ELSE ClassifyError(log[j].result.error)

\* What holds of the recipients taken so far when some lookups failed.
LookupFailuresApart ==
    /\ \A i \in Unresolved :
          /\ i <= Len(status)
          /\ log[i].lookup = "notfound" =>
                status[i] = PermanentFailure(<<5, 5, 0>>, "Mailbox not found.")
          /\ log[i].lookup = "err" =>
                status[i] = TemporaryFailure("Address lookup failed.")
          /\ ~log[i].delivered
          /\ pc \in {"deliver", "outputs", "returned"} => rcpt_idx # i
    /\ DOMAIN account_ids = { log[i].account : i \in Taken \ Unresolved }
    /\ \A a \in Accounts : ResolvedTo(a) = {} => calls[a] = NoCalls
    /\ \A j \in Taken \ Unresolved :
          j <= Len(status) => status[j] = AccountStatus(j)
    /\ (pc = "done" /\ blob \in {"orig", "garbage"}) =>
          Len(log) = Len(recipients) /\ Len(status) = Len(recipients)

\* The turn of the for loop of a recipient whose lookup fails: it pushes the
\* status and goes on to the next recipient, touching nothing else.
LookupFailureStep ==
    (Len(log') = Len(log) + 1 /\ log'[Len(log')].lookup # "found") =>
        /\ status' = Append(status, status'[Len(status')])
        /\ pc' = "next_rcpt"
        /\ UNCHANGED << account_ids, calls, mailboxes, store_seq, pushes,
                        autogenerated, frame, last_output >>

\* C12: a recipient the directory does not know gets PermanentFailure 550
\* "Mailbox not found.", one whose lookup fails gets TemporaryFailure
\* "Address lookup failed."; deliver_to_recipient is not called for it, no
\* account is recorded as seen for it, and the other recipients are processed
\* as usual, each status determined by its own account's delivery.
C12_LookupFailureIsLocal == []LookupFailuresApart /\ [][LookupFailureStep]_vars

\* An unknown address followed by a recipient that is delivered.
C12_Witness ==
    /\ pc = "done"
    /\ Len(log) = 2
    /\ Len(status) = 2
    /\ log[1].lookup = "notfound"
    /\ log[2].delivered
    /\ status[2] = Success

\* ------------------------------------------------------ status classifier
\* The error deliver_to_recipient returned for the first recipient.
ReturnedError == log[1].result.error

\* C13: the status pushed for an error of deliver_to_recipient depends on
\* its event type: Limit::Quota gives TemporaryFailure "Mailbox over quota.",
\* Limit::TenantQuota TemporaryFailure "Organization over quota.",
\* Security::Unauthorized PermanentFailure 550, MessageIngest::Error
\* PermanentFailure with the hundreds, tens and units of the Code (5, 5, 0
\* without Code) and the error's Reason, anything else TemporaryFailure
\* "Transient server failure.".
C13_Classifier ==
    (Len(log) = 1 /\ log[1].delivered /\ ~log[1].result.ok) =>
    /\ Len(status) = 1
    /\ LET err == ReturnedError
           st == status[1]
       IN CASE err.type = "Limit::Quota" ->
                 st = TemporaryFailure("Mailbox over quota.")
            [] err.type = "Limit::TenantQuota" ->
                 st = TemporaryFailure("Organization over quota.")
            [] err.type = "Security::Unauthorized" ->
                 st.variant = "PermanentFailure" /\ st.code = <<5, 5, 0>>
            [] err.type = "MessageIngest::Error" ->
                 /\ st.variant = "PermanentFailure"
                 /\ st.reason = err.reason
                 /\ Len(st.code) = 3
                 /\ IF err.code = NoCode
                    THEN st.code = <<5, 5, 0>>
                    ELSE /\ 100 * st.code[1] + 10 * st.code[2] + st.code[3] = err.code
                         /\ st.code[2] \in 0..9
                         /\ st.code[3] \in 0..9
            [] OTHER -> st = TemporaryFailure("Transient server failure.")

\* A MessageIngest::Error with Code 571 and a reason has been classified.
C13_Witness ==
    /\ Len(log) = 1
    /\ log[1].delivered
    /\ ~log[1].result.ok
    /\ ReturnedError.type = "MessageIngest::Error"
    /\ ReturnedError.code = 571
    /\ ReturnedError.reason = "rejected by script"
    /\ Len(status) = 1
    /\ status[1].code = <<5, 7, 1>>

\* ------------------------------------------------------- filter script
\* The recipients for which deliver_to_recipient has returned after the
\* filter script answered with the given kind.
ScriptAnswered(kind) ==
    { i \in Taken : log[i].delivered /\ log[i].script.kind = kind }

\* No hook call, no email_ingest and no push notification was made for the
\* recipient's account.
NoHookIngestPush(i) ==
    /\ calls[log[i].account].hook = 0
    /\ calls[log[i].account].ingest = 0
    /\ calls[log[i].account].stored = 0
    /\ PushesFor(log[i].account) = {}
    /\ ~Notified(i)

\* C14: when the account's active filter script rejects the message, the
\* recipient fails with code 571 and the script's reason; when it discards
\* the message, deliver_to_recipient returns Ok with change_id == MAX and the
\* recipient is Success. In both cases no delivery hook is invoked,
\* email_ingest is not called and no push notification is sent.
C14_ScriptRejectDiscard ==
    /\ \A i \in ScriptAnswered("reject") :
          /\ log[i].result = Err(MessageIngestError(571, log[i].script.reject_reason))
          /\ i <= Len(status)
          /\ status[i] = PermanentFailure(<<5, 7, 1>>, log[i].script.reject_reason)
          /\ NoHookIngestPush(i)
    /\ \A i \in ScriptAnswered("discard") :
          /\ log[i].result.ok
          /\ log[i].result.email.change_id = U64_MAX
          /\ i <= Len(status)
          /\ status[i] = Success
          /\ NoHookIngestPush(i)
    /\ \A i \in Taken :
          (log[i].script.kind \in {"reject", "discard"} /\ ~log[i].delivered) =>
              /\ pc = "returned"
              /\ rcpt_idx = i
              /\ calls[log[i].account].hook = 0
              /\ calls[log[i].account].ingest = 0

\* One recipient's script rejected with a reason of its own, another
\* recipient's script discarded.
C14_Witness ==
    /\ pc = "done"
    /\ Len(log) = 2
    /\ Len(status) = 2
    /\ log[1].script = [kind |-> "reject", reject_reason |-> "no thanks"]
    /\ log[2].script.kind = "discard"
    /\ log[1].delivered
    /\ log[2].delivered

\* ------------------------------------------------------- hook requests
\* How many of the requests in seq went to the hook at position k.
RequestsTo(seq, k) == Cardinality({ j \in DOMAIN seq : seq[j] = k })

\* The requests a step adds for account a.
Sent(a) ==
    SubSeq(calls[a].posts', Len(calls[a].posts) + 1, Len(calls[a].posts'))

\* C15 as stated: every enabled hook receives exactly one HTTP POST per
\* recipient that reaches the hook stage, however many output messages the
\* filter script produced for the recipient.
C15_OnePostPerRecipient ==
    \A a \in Accounts : \A k \in 1..Len(delivery_hooks) :
        (delivery_hooks[k].enable /\ calls[a].posts # <<>>) =>
            RequestsTo(calls[a].posts, k) = 1

\* One call of try_delivery_hook (one per output message that parses) sends
\* exactly one request to every enabled hook once the recipient's principal is
\* found, whatever the hooks answer, and none to a hook that is not enabled;
\* no request is sent outside such a call.
OnePostPerHookCall ==
    \A a \in Accounts :
        /\ Len(calls[a].posts') >= Len(calls[a].posts)
        /\ SubSeq(calls[a].posts', 1, Len(calls[a].posts)) = calls[a].posts
        /\ calls[a].hook' = calls[a].hook => Sent(a) = <<>>
        /\ calls[a].hook' # calls[a].hook =>
              /\ calls[a].hook' = calls[a].hook + 1
              /\ \A k \in 1..Len(delivery_hooks) :
                    RequestsTo(Sent(a), k) =
                        IF delivery_hooks[k].enable
                           /\ last_output'.input.principal = "ok"
                        THEN 1 ELSE 0

\* C15, amended: every enabled hook receives exactly one HTTP POST per output
\* message for which try_delivery_hook is called and the principal is found
\* (so as many per recipient as output messages reach the hook stage), and
\* a failed request is not sent again.
C15_OnePostPerOutput == [][OnePostPerHookCall]_vars

\* Two output messages of one recipient went through the hook stage, the
\* request of the second failed, and the hook was sent two requests in all.
C15_Witness ==
    /\ calls[7].hook = 2
    /\ calls[7].posts = <<1, 1>>
    /\ last_output.input.principal = "ok"
    /\ last_output.input.exchanges[1].response = HookFailed

\* ------------------------------------------------------ flag-based filing
\* The keywords that file a message, with their mailboxes.
FilingTargets ==
    { <<"Junk", JUNK_ID>>, <<"Deleted", TRASH_ID>>, <<"Draft", DRAFTS_ID>> }

\* C16: the mailbox_ids handed to email_ingest contain the target mailbox of
\* every keyword among Junk, Deleted and Draft of the merged keywords (JUNK_ID,
\* TRASH_ID, DRAFTS_ID), and do not contain INBOX_ID when there is such a
\* keyword, whatever mailbox list the output message and the hook gave.
C16_FlagFiling ==
    last_output.ingested =>
        LET ids == last_output.request.mailbox_ids
            kws == last_output.request.keywords
        IN /\ \A t \in FilingTargets : Contains(kws, t[1]) => Contains(ids, t[2])
           /\ (\E t \in FilingTargets : Contains(kws, t[1])) =>
                  ~Contains(ids, INBOX_ID)

\* An output message filed into INBOX and another mailbox with keyword
\* Deleted, to which the hook adds the flag $junk: INBOX is gone and both
\* targets are there.
C16_Witness ==
    /\ last_output.ingested
    /\ last_output.output.mailbox_ids = <<INBOX_ID, 10>>
    /\ last_output.output.keywords = <<"Deleted">>
    /\ last_output.hook.flags = {"$junk"}
    /\ last_output.request.mailbox_ids = <<10, TRASH_ID, JUNK_ID>>
    /\ last_output.request.keywords = <<"Deleted", "Junk">>

\* ------------------------------------------------------- header rewriting
\* A value with every CR written as %0D and every LF as %0A.
RECURSIVE Escaped(_)
Escaped(value) ==
    IF value = <<>> THEN <<>>
    ELSE (IF Head(value) = CR THEN << "%", "0", "D" >>
          ELSE IF Head(value) = LF THEN << "%", "0", "A" >>
          ELSE << Head(value) >>) \o Escaped(Tail(value))

\* The line "name: value CRLF" of one pair, and the lines of a list of pairs.
HeaderLine(pair) == pair[1] \o << ":", " " >> \o Escaped(pair[2]) \o CRLF
RECURSIVE HeaderLinesOf(_)
HeaderLinesOf(pairs) ==
    IF pairs = <<>> THEN <<>>
    ELSE HeaderLine(Head(pairs)) \o HeaderLinesOf(Tail(pairs))

\* The bytes apply_add_header_modifications returned.
Out == new_message.bytes

\* C17: apply_add_header_modifications returns one line "name: value CRLF"
\* per pair, in the order given, followed by original_raw unchanged; when
\* there are pairs the output starts with the first name and ": ".
C17_AddHeadersPrepended ==
    (header_pc = "returned" /\ new_message.some) =>
        /\ Out = HeaderLinesOf(header_ops) \o original_raw
        /\ Len(Out) >= Len(original_raw)
        /\ SubSeq(Out, Len(Out) - Len(original_raw) + 1, Len(Out)) = original_raw
        /\ header_ops # <<>> =>
              LET first == header_ops[1][1] \o << ":", " " >>
              IN /\ Len(Out) >= Len(first)
                 /\ SubSeq(Out, 1, Len(first)) = first

\* Two pairs with different names and values were prepended to a message.
C17_Witness ==
    /\ header_pc = "returned"
    /\ new_message.some
    /\ Len(header_ops) = 2
    /\ header_ops[1] = << << "Y" >>, << "n" >> >>
    /\ header_ops[2] = << << "X" >>, <<>> >>
    /\ Len(original_raw) > 4

\* The number of CR and LF bytes among the first n bytes of a value.
Breaks(value, n) == Cardinality({ q \in 1..n : value[q] \in {CR, LF} })

\* Where the encoded value of the i-th pair starts in the output (the number
\* of bytes before it), computed from the lengths of the pairs.
RECURSIVE ValueOffset(_, _)
ValueOffset(pairs, i) ==
    IF i = 1 THEN Len(pairs[1][1]) + 2
    ELSE ValueOffset(pairs, i - 1)
         + Len(pairs[i - 1][2]) + 2 * Breaks(pairs[i - 1][2], Len(pairs[i - 1][2]))
         + 2 + Len(pairs[i][1]) + 2

\* The number of bytes b in the names of the pairs.
RECURSIVE InNames(_, _)
InNames(pairs, b) ==
    IF pairs = <<>> THEN 0
    ELSE Cardinality({ q \in 1..Len(pairs[1][1]) : pairs[1][1][q] = b })
         + InNames(Tail(pairs), b)

\* C18: in the output of apply_add_header_modifications every CR of a value
\* stands as %0D and every LF as %0A, every other byte of the value as
\* itself, in order; the bytes written for a value hold no CR and no LF, so
\* the only line ends of the prepended region are those that close the
\* lines, one per pair, and those of the names.
C18_ValuesEncoded ==
    (header_pc = "returned" /\ new_message.some) =>
        /\ \A i \in 1..Len(header_ops) :
              LET value == header_ops[i][2]
                  off == ValueOffset(header_ops, i)
                  len == Len(value) + 2 * Breaks(value, Len(value))
              IN /\ off + len + 2 <= Len(Out)
                 /\ \A j \in 1..Len(value) :
                       LET p == off + j + 2 * Breaks(value, j - 1)
                       IN CASE value[j] = CR ->
                                 SubSeq(Out, p, p + 2) = << "%", "0", "D" >>
                            [] value[j] = LF ->
                                 SubSeq(Out, p, p + 2) = << "%", "0", "A" >>
                            [] OTHER -> Out[p] = value[j]
                 /\ \A p \in (off + 1)..(off + len) : Out[p] \notin {CR, LF}
                 /\ SubSeq(Out, off + len + 1, off + len + 2) = CRLF
        /\ Cardinality({ p \in 1..(Len(Out) - Len(original_raw)) : Out[p] = LF })
              = Len(header_ops) + InNames(header_ops, LF)
        /\ Cardinality({ p \in 1..(Len(Out) - Len(original_raw)) : Out[p] = CR })
              = Len(header_ops) + InNames(header_ops, CR)

\* A value with CR LF followed by the text of another header was added: the
\* prepended region is one line.
C18_Witness ==
    /\ header_pc = "returned"
    /\ header_ops = << << << "X" >>, << "o", CR, LF, "E", ":", " ", "i" >> >> >>
    /\ Len(original_raw) > 4
    /\ SubSeq(Out, 1, 15) =
          << "X", ":", " ", "o", "%", "0", "D", "%", "0", "A", "E", ":", " ", "i", CR >>

\* ASCII case folding of one byte of a header name (to upper case), and
\* equality of two names ignoring ASCII case.
Folded(byte) ==
    CASE byte = "x" -> "X"
      [] byte = "y" -> "Y"
      [] OTHER -> byte
SameNameIgnoringCase(a, b) ==
    /\ Len(a) = Len(b)
    /\ [j \in 1..Len(a) |-> Folded(a[j])] = [j \in 1..Len(b) |-> Folded(b[j])]

\* The positions of the headers of a list whose name is the given one,
\* ignoring ASCII case.
Occurrences(list, name) ==
    { p \in 1..Len(list) : SameNameIgnoringCase(list[p][1], name) }

\* An operation whose index is 0 or exceeds the number of headers of the
\* list with its target name.
Misses(op, list) ==
    op[1] = 0 \/ Cardinality(Occurrences(list, op[2])) < op[1]

\* C19: apply_replace_header_modifications returns None if and only if no
\* operation found its target, that is, for every operation the number of
\* headers of the message whose name matches ignoring case is smaller than
\* the operation's index, or the index is 0; as soon as one operation finds
\* its target the result is Some.
C19_NoneIffNoTarget ==
    header_pc = "returned" =>
        (~new_message.some <=>
            \A i \in 1..Len(header_ops) :
                Misses(header_ops[i], ParseHeaders(original_raw)))

\* On a message with the headers X, Y and x, an operation on the third "x"
\* missed and a later one on the second "X" found the header named x: the
\* result is Some.
C19_Witness ==
    /\ header_pc = "returned"
    /\ Len(ParseHeaders(original_raw)) = 3
    /\ ParseHeaders(original_raw)[3][1] = << "x" >>
    /\ header_ops = << << 3, << "x" >>, << "n" >> >>, << 2, << "X" >>, <<>> >> >>
    /\ new_message.some

\* The k-th position, left to right, of a set of positions, and a list
\* without its p-th header.
KthOf(positions, k) ==
    CHOOSE p \in positions : Cardinality({ q \in positions : q <= p }) = k
WithoutHeader(list, p) == SubSeq(list, 1, p - 1) \o SubSeq(list, p + 1, Len(list))

\* C20: each operation (k, name, value), applied in list order to the header
\* list the earlier operations left, affects exactly the k-th header, counted
\* from 1 left to right, whose name equals the target name ignoring ASCII
\* case: that header is removed when the value is empty and gets the
\* CR/LF-encoded value otherwise; every other header keeps its name and
\* value, and an operation whose k-th occurrence does not exist changes
\* nothing.
C20_ReplaceAffectsKth ==
    [][(header_pc = "ops" /\ op_idx' = op_idx + 1) =>
        LET op == header_ops[op_idx + 1]
            matching == Occurrences(headers, op[2])
        IN IF op[1] >= 1 /\ op[1] <= Cardinality(matching)
           THEN LET p == KthOf(matching, op[1])
                IN IF op[3] = <<>>
                   THEN headers' = WithoutHeader(headers, p)
                   ELSE /\ Len(headers') = Len(headers)
                        /\ headers'[p] = << headers[p][1], Escaped(op[3]) >>
                        /\ \A q \in 1..Len(headers) :
                              q # p => headers'[q] = headers[q]
           ELSE headers' = headers]_vars

\* Of three headers named X the first was removed by the first operation;
\* the second operation, on the second "x", then rewrote the last of the
\* three with a value holding CR and LF.
C20_Witness ==
    /\ header_pc = "ops"
    /\ op_idx = 2
    /\ header_ops = << << 1, << "x" >>, <<>> >>,
                       << 2, << "x" >>, << "o", CR, LF, "E" >> >> >>
    /\ Len(ParseHeaders(original_raw)) = 3
    /\ headers = << << << "X" >>, << "b" >> >>,
                    << << "X" >>, << "o", "%", "0", "D", "%", "0", "A", "E" >> >> >>

\* part stands in bytes as a contiguous run; bytes ends with part.
Occurs(part, bytes) ==
    \E p \in 0..(Len(bytes) - Len(part)) :
        SubSeq(bytes, p + 1, p + Len(part)) = part
EndsWith(bytes, part) ==
    /\ Len(part) <= Len(bytes)
    /\ SubSeq(bytes, Len(bytes) - Len(part) + 1, Len(bytes)) = part

\* Where a message without CRLF CRLF has its blank line LF LF (the position
\* of the first of the two line feeds, 0 when it has none), its header lines
\* (everything when there is no blank line) and its body.
LfLfAt(raw) ==
    IF \E p \in 1..(Len(raw) - 1) : raw[p] = LF /\ raw[p + 1] = LF
    THEN CHOOSE p \in 1..(Len(raw) - 1) :
            /\ raw[p] = LF /\ raw[p + 1] = LF
            /\ \A q \in 1..(p - 1) : ~(raw[q] = LF /\ raw[q + 1] = LF)
    ELSE 0
HeaderLinesUpToLfLf(raw) ==
    SplitLines(IF LfLfAt(raw) = 0 THEN raw ELSE SubSeq(raw, 1, LfLfAt(raw) - 1),
               1, <<>>)
BodyAfterLfLf(raw) ==
    IF LfLfAt(raw) = 0 THEN <<>> ELSE SubSeq(raw, LfLfAt(raw) + 2, Len(raw))

\* C21: apply_replace_header_modifications tolerates every header
\* terminator: for a message without CRLF CRLF, whose headers end with LF LF
\* or with the end of the input, a call in which an operation matched returns
\* a message that ends with the body bytes of the input and in which every
\* header no operation names stands with its full name and value.
C21_TerminatorsTolerated ==
    (/\ header_pc = "returned"
     /\ new_message.some
     /\ ~Occurs(CRLF \o CRLF, original_raw)) =>
        /\ EndsWith(Out, BodyAfterLfLf(original_raw))
        /\ \A j \in 1..Len(HeaderLinesUpToLfLf(original_raw)) :
              LET line == StripCr(HeaderLinesUpToLfLf(original_raw)[j])
              IN (/\ ColonPos(line) > 1
                  /\ \A i \in 1..Len(header_ops) :
                        ~SameNameIgnoringCase(
                            SubSeq(line, 1, ColonPos(line) - 1), header_ops[i][2]))
                 => Occurs(line \o CRLF, Out)

\* ------------------------------------------------------- bytes for ingest
\* C22: the bytes handed to email_ingest for an output message are either
\* the fully rewritten message, which parsed again and is passed with its new
\* parse tree, or exactly the unmodified bytes of the output passed with the
\* parse tree of those bytes; rewritten bytes that fail to parse again are
\* never ingested, and the rewritten bytes exist whenever they are chosen.
C22_IngestedBytes ==
    last_output.ingested =>
        LET request == last_output.request
            output == last_output.output
            locals == last_output.locals
            mods == last_output.hook.modifications
        IN IF locals.owned_new_raw # <<>> /\ locals.parse_ok
           THEN /\ request.raw_message = locals.owned_new_raw[1]
                /\ request.message = Message(request.raw_message)
                /\ request.raw_message.bytes = output.raw
                /\ request.raw_message.added = AddHeaders(mods)
                /\ (request.raw_message.added # <<>> \/ request.raw_message.replaced)
           ELSE /\ request.raw_message = Unmodified(output.raw)
                /\ request.message = Message(Unmodified(output.raw))

\* A hook added and replaced headers of an output the script had edited, the
\* rewritten bytes did not parse again, and the output's own bytes went on to
\* email_ingest.
C22_Witness ==
    /\ last_output.ingested
    /\ last_output.output.changed
    /\ Len(last_output.hook.modifications) = 4
    /\ last_output.locals.owned_new_raw # <<>>
    /\ last_output.locals.owned_new_raw[1].replaced
    /\ ~last_output.locals.parse_ok
    /\ last_output.request.raw_message = Unmodified("edited")

\* ------------------------------------------------------- filing targets
\* The last try_delivery_hook call had one hook, which answered with one
\* FileInto, and found the principal and the mailbox cache.
OneFileInto ==
    /\ last_output.rcpt # 0
    /\ last_output.input.principal = "ok"
    /\ last_output.input.cache = "ok"
    /\ Len(last_output.input.exchanges) = 1
    /\ last_output.input.exchanges[1].response.ok
    /\ Len(last_output.input.exchanges[1].response.modifications) = 1
    /\ last_output.input.exchanges[1].response.modifications[1].type = "fileInto"
TheFileInto == last_output.input.exchanges[1].response.modifications[1]

\* The mailboxes of a cache that a FileInto names by its mailbox_id, by its
\* special_use and by its folder.
IdsById(m, cache) ==
    { b.id : b \in { c \in cache : /\ m.mailbox_id # ""
                                    /\ IdFromStr(m.mailbox_id).ok
                                    /\ c.id = IdFromStr(m.mailbox_id).document_id } }
IdsByRole(m, cache) ==
    IF m.special_use = <<>> THEN {}
    ELSE IF AsciiLower(m.special_use[1]) = "inbox" THEN {INBOX_ID}
    ELSE IF AsciiLower(m.special_use[1]) = "trash" THEN {TRASH_ID}
    ELSE { b.id : b \in { c \in cache : c.role = AsciiLower(m.special_use[1]) } }
IdsByFolder(m, cache) == { b.id : b \in { c \in cache : c.path = m.folder } }

\* The target of the FileInto is chosen by strict priority: mailbox_id, then
\* special_use, then the folder; mailbox_create_path is called only when
\* mailbox_id and special_use did not resolve.
ChosenByPriority ==
    LET m == TheFileInto
        cache == last_output.tree
        result == last_output.hook
    IN IF IdsById(m, cache) # {}
       THEN result.kind = "some" /\ result.mailbox_ids = IdsById(m, cache)
                                 /\ result.creates = 0
       ELSE IF IdsByRole(m, cache) # {}
       THEN result.kind = "some" /\ result.mailbox_ids = IdsByRole(m, cache)
                                 /\ result.creates = 0
       ELSE IF ~m.create
       THEN result.kind = "some" /\ result.mailbox_ids = IdsByFolder(m, cache)
                                 /\ result.creates = 0
       ELSE /\ result.creates = 1
            /\ last_output.input.exchanges[1].create = "ok" =>
                  /\ result.kind = "some"
                  /\ result.mailbox_ids = IdsByFolder(m, result.tree)
                  /\ result.mailbox_ids # {}

\* Nothing resolved: neither mailbox_id nor special_use nor the folder, by
\* lookup or by creation, gave a mailbox.
NothingResolves ==
    /\ IdsById(TheFileInto, last_output.tree) = {}
    /\ IdsByRole(TheFileInto, last_output.tree) = {}
    /\ IF TheFileInto.create
       THEN last_output.input.exchanges[1].create # "ok"
       ELSE IdsByFolder(TheFileInto, last_output.tree) = {}

\* C23 as stated: the target of a FileInto is chosen by strict priority
\* (mailbox_id, special_use, folder), and a FileInto for which nothing
\* resolves adds no mailbox id and raises no error.
C23_UnresolvedNeverFails ==
    OneFileInto =>
        /\ ChosenByPriority
        /\ NothingResolves =>
              last_output.hook.mailbox_ids = {} /\ last_output.hook.kind = "some"

\* C23: the target of a FileInto is chosen by strict priority: mailbox_id
\* when it is not empty, parses and is in the cache; otherwise special_use
\* (inbox and trash in any case, other roles by cache lookup); otherwise the
\* folder. A lower field is consulted only when every higher one failed. A
\* FileInto for which nothing resolves adds no mailbox id; it raises no
\* error unless it has create = true and mailbox_create_path or the cache
\* fetch after it failed.
C23_FileIntoPriority ==
    OneFileInto =>
        /\ ChosenByPriority
        /\ NothingResolves =>
              /\ last_output.hook.mailbox_ids = {}
              /\ last_output.hook.kind \in {"some", "err"}
              /\ last_output.hook.kind = "err" <=>
                    /\ TheFileInto.create
                    /\ last_output.input.exchanges[1].create \in {"err", "refresh_err"}

\* A FileInto whose mailbox_id parses but is not in the cache and whose
\* special_use names no role was filed by its folder.
C23_Witness ==
    /\ OneFileInto
    /\ TheFileInto = FileInto("Work", "l", << "bogus" >>, FALSE)
    /\ last_output.hook.mailbox_ids = {10}
    /\ last_output.ingested

\* The last try_delivery_hook call had one hook, which answered with a
\* FileInto that creates the folder New followed by a FileInto of that
\* folder without create, and the creation succeeded.
CreatedThenFiled ==
    /\ last_output.rcpt # 0
    /\ last_output.input.principal = "ok"
    /\ last_output.input.cache = "ok"
    /\ Len(last_output.input.exchanges) = 1
    /\ last_output.input.exchanges[1].create = "ok"
    /\ last_output.input.exchanges[1].response.modifications =
          << FileInto("New", "", <<>>, TRUE), FileInto("New", "", <<>>, FALSE) >>

\* C24: mailbox_create_path is called only for a FileInto with create = true
\* whose mailbox_id and special_use did not resolve and whose folder is not
\* found in the mailbox cache; after a successful creation the cache is
\* fetched again before any later modification is resolved, so a later
\* FileInto that names the new mailbox resolves to it.
C24_CreateOnlyWhenMissing ==
    /\ (OneFileInto /\ last_output.hook.creates > 0) =>
          /\ TheFileInto.create
          /\ IdsById(TheFileInto, last_output.tree) = {}
          /\ IdsByRole(TheFileInto, last_output.tree) = {}
          /\ IdsByFolder(TheFileInto, last_output.tree) = {}
    /\ CreatedThenFiled =>
          /\ last_output.hook.kind = "some"
          /\ last_output.hook.creates = 1
          /\ last_output.hook.mailbox_ids =
                { b.id : b \in { c \in last_output.hook.tree : c.path = "New" } }
          /\ last_output.hook.mailbox_ids # {}

\* ------------------------------------------------------------- the merge
\* The elements of a list; a list without the elements equal to x.
Elements(list) == { list[j] : j \in 1..Len(list) }
Dropping(list, x) ==
    LET Differs(y) == y # x IN SelectSeq(list, Differs)

\* list is base followed by the elements of extra that base does not hold,
\* each once, in some order.
Extends(list, base, extra) ==
    /\ Len(list) = Len(base) + Cardinality(extra \ Elements(base))
    /\ SubSeq(list, 1, Len(base)) = base
    /\ { list[j] : j \in (Len(base) + 1)..Len(list) } = extra \ Elements(base)

\* C25: after a Some result of try_delivery_hook is merged, the mailbox list
\* is the filter script's list followed by the hook's mailbox ids that were
\* not in it, none of them twice; the keyword list is the script's keywords
\* followed by the keywords of the hook's flags that were not among them;
\* and with skip_inbox the list holds no INBOX_ID (the script's list and the
\* hook's ids both without it), even if a hook filed into the inbox.
C25_MergeIsUnion ==
    last_output.ingested =>
        LET output == last_output.output
            hook == last_output.hook
            merged == last_output.locals
        IN /\ IF hook.skip_inbox
              THEN /\ Extends(merged.mailbox_ids,
                              Dropping(output.mailbox_ids, INBOX_ID),
                              hook.mailbox_ids \ {INBOX_ID})
                   /\ INBOX_ID \notin Elements(merged.mailbox_ids)
              ELSE Extends(merged.mailbox_ids, output.mailbox_ids, hook.mailbox_ids)
           /\ Extends(merged.keywords, output.keywords,
                      { KeywordFrom(flag) : flag \in hook.flags })

\* The script filed into the inbox and trash; the hook filed into the inbox
\* and the mailbox 10, added $seen and asked to skip the inbox: the merged
\* list is trash and 10.
C25_Witness ==
    /\ last_output.ingested
    /\ last_output.output.mailbox_ids = << INBOX_ID, TRASH_ID >>
    /\ last_output.output.keywords = << "Junk" >>
    /\ last_output.hook.skip_inbox
    /\ last_output.hook.mailbox_ids = { INBOX_ID, 10 }
    /\ last_output.locals.mailbox_ids = << TRASH_ID, 10 >>
    /\ last_output.locals.keywords = << "Junk", "Seen" >>

\* How often x stands in a list.
Count(list, x) == Cardinality({ j \in 1..Len(list) : list[j] = x })

\* C26: the flag-based filing never removes a mailbox id other than INBOX_ID
\* (the mailboxes chosen by the script and the hooks stay), and it leaves
\* mailbox_ids as they are when the keywords hold none of Junk, Deleted and
\* Draft.
C26_FilingKeepsMailboxes ==
    last_output.ingested =>
        LET before == last_output.locals.mailbox_ids
            after == last_output.request.mailbox_ids
            keywords == last_output.locals.keywords
        IN /\ \A id \in Elements(before) \ {INBOX_ID} :
                 Count(after, id) >= Count(before, id)
           /\ Elements(keywords) \cap {"Junk", "Deleted", "Draft"} = {} =>
                 after = before

\* The inbox and the mailbox 10 were chosen and the keyword Junk was set: the
\* filing removed the inbox, kept 10 and added the junk mailbox.
C26_Witness ==
    /\ last_output.ingested
    /\ last_output.locals.mailbox_ids = << INBOX_ID, 10 >>
    /\ last_output.locals.keywords = << "Seen", "Junk" >>
    /\ last_output.request.mailbox_ids = << 10, JUNK_ID >>

\* The bytes of a message that follow its first CRLF CRLF (none when it has
\* no CRLF CRLF).
AfterBlankLine(raw) ==
    IF Occurs(CRLF \o CRLF, raw)
    THEN LET p == CHOOSE p \in 0..(Len(raw) - 4) :
                     /\ SubSeq(raw, p + 1, p + 4) = CRLF \o CRLF
                     /\ \A q \in 0..(p - 1) : SubSeq(raw, q + 1, q + 4) # CRLF \o CRLF
         IN SubSeq(raw, p + 5, Len(raw))
    ELSE <<>>

\* The names of a header list, in order; a list of names that is another
\* with some of its names left out.
NamesOf(list) == [j \in 1..Len(list) |-> list[j][1]]
IsSubsequence(part, whole) ==
    \E f \in [1..Len(part) -> 1..Len(whole)] :
        /\ \A i \in 1..Len(part) : part[i] = whole[f[i]]
        /\ \A i \in 1..(Len(part) - 1) : f[i] < f[i + 1]

\* C27: when apply_replace_header_modifications returns Some(out), out ends
\* with the bytes of the message that follow its first CRLF CRLF, unchanged;
\* what stands before them is the header lines followed by exactly one empty
\* line, the only empty line there; and the headers that are left stand in
\* the order they had in the message.
C27_BodyAndOrderKept ==
    (header_pc = "returned" /\ new_message.some) =>
        LET body == AfterBlankLine(original_raw)
            head == SubSeq(Out, 1, Len(Out) - Len(body))
            lines == SplitLines(head, 1, <<>>)
        IN /\ EndsWith(Out, CRLF \o body)
           /\ Len(lines) >= 2
           /\ lines[Len(lines)] = <<>>
           /\ lines[Len(lines) - 1] = << CR >>
           /\ \A j \in 1..(Len(lines) - 2) :
                 /\ StripCr(lines[j]) # <<>>
                 /\ lines[j][Len(lines[j])] = CR
           /\ IsSubsequence(NamesOf(ParseHeaders(head)),
                            NamesOf(ParseHeaders(original_raw)))
           /\ Len(ParseHeaders(head)) = Len(lines) - 2
                 - Cardinality({ j \in 1..(Len(lines) - 2) : lines[j][1] \in {" ", HT} })

\* Of the headers X, Y and x before the body B, the first was removed and
\* the last rewritten: Y and x are left, in this order, before one empty
\* line and B.
C27_Witness ==
    /\ header_pc = "returned"
    /\ header_ops = << << 1, << "x" >>, <<>> >>, << 1, << "x" >>, << "n" >> >> >>
    /\ Out = << "Y", ":", " ", "b", CR, LF, "x", ":", " ", "n", CR, LF, CR, LF, "B" >>

\* ------------------------------------------------- AddHeader, ReplaceHeader
\* The modifications of one type, in list order.
OfType(mods, type) == LET Is(m) == m.type = type IN SelectSeq(mods, Is)

\* The headers the AddHeader modifications of a list stand for, in list
\* order, as (name, encoded value).
AddedHeaders(mods) ==
    [j \in 1..Len(OfType(mods, "addHeader")) |->
        << OfType(mods, "addHeader")[j].name,
           Escaped(OfType(mods, "addHeader")[j].value) >>]

\* Whether a ReplaceHeader finds its target in a header list, and the list
\* it leaves: the k-th header of its name removed or given the encoded value.
Hits(list, m) ==
    m.index >= 1 /\ m.index <= Cardinality(Occurrences(list, m.name))
AppliedTo(list, m) ==
    IF ~Hits(list, m) THEN list
    ELSE LET p == KthOf(Occurrences(list, m.name), m.index)
         IN IF m.value = <<>> THEN WithoutHeader(list, p)
            ELSE [list EXCEPT ![p] = << list[p][1], Escaped(m.value) >>]

\* ReplaceHeader modifications applied one after the other, and whether any
\* of them finds its target on the way.
RECURSIVE AppliedAll(_, _)
AppliedAll(list, replaces) ==
    IF replaces = <<>> THEN list
    ELSE AppliedAll(AppliedTo(list, Head(replaces)), Tail(replaces))
RECURSIVE AnyHits(_, _)
AnyHits(list, replaces) ==
    IF replaces = <<>> THEN FALSE
    ELSE Hits(list, Head(replaces))
         \/ AnyHits(AppliedTo(list, Head(replaces)), Tail(replaces))

\* C28: for one output message all AddHeader modifications are applied, in
\* list order, before any ReplaceHeader modification, however the two kinds
\* are interleaved in the list: the ReplaceHeader modifications work, in
\* list order, on the headers of the message that already starts with the
\* added headers, and their indexes count the added headers.
C28_AddsBeforeReplaces ==
    header_pc = "returned" =>
        LET adds == OfType(header_ops, "addHeader")
            replaces == OfType(header_ops, "replaceHeader")
            start == AddedHeaders(header_ops) \o ParseHeaders(original_raw)
        IN IF AnyHits(start, replaces)
           THEN /\ new_message.some
                /\ Out = RebuildMessage(AppliedAll(start, replaces), original_raw)
           ELSE IF adds # <<>>
           THEN new_message =
                   Some(HeaderLinesOf([j \in 1..Len(adds) |->
                                          << adds[j].name, adds[j].value >>])
                        \o original_raw)
           ELSE ~new_message.some

\* A ReplaceHeader of the first "x" stood before an AddHeader of X in the
\* list: the added header, first in the message, got the new value and the
\* three X headers of the message kept theirs.
C28_Witness ==
    /\ header_pc = "returned"
    /\ header_ops = << ReplaceHeader(1, << "x" >>, << "r" >>),
                       AddHeader(<< "X" >>, << "n" >>) >>
    /\ new_message.some
    /\ Out = << "X", ":", " ", "r", CR, LF, "X", ":", " ", "a", CR, LF,
                "X", ":", " ", "b", CR, LF, "X", ":", " ", "c", CR, LF, CR, LF >>

\* ------------------------------------------------------ order of the fold
\* In the last try_delivery_hook call every enabled hook answered, with
\* Accept or Quarantine, and the principal and the mailbox cache were found.
AllAccepted ==
    /\ last_output.rcpt # 0
    /\ last_output.input.principal = "ok"
    /\ last_output.input.cache = "ok"
    /\ EnabledHooks(delivery_hooks) # <<>>
    /\ \A k \in Elements(EnabledHooks(delivery_hooks)) :
          /\ last_output.input.exchanges[k].response.ok
          /\ last_output.input.exchanges[k].response.action \in {"accept", "quarantine"}

\* No answer of the last call asked for a mailbox to be created.
NoneCreates ==
    \A k \in Elements(EnabledHooks(delivery_hooks)) :
        ~HasCreate(last_output.input.exchanges[k].response)

\* The result of the last call had its hook results been folded in the given
\* order.
FoldedInOrder(order) ==
    FoldOutcome(FoldHooks(FoldStart(last_output.tree, last_output.tree),
                          delivery_hooks, order, last_output.input.exchanges, 1),
                Len(order))

\* C29 as stated: when every enabled hook answers with an action other than
\* Discard and Reject, the merged result (mailbox_ids, flags, skip_inbox and
\* the modifications list) is the same for every order of the fold.
C29_FoldOrderFree ==
    AllAccepted =>
        \A order \in Orders(Elements(EnabledHooks(delivery_hooks))) :
            /\ FoldedInOrder(order).kind = last_output.hook.kind
            /\ FoldedInOrder(order).mailbox_ids = last_output.hook.mailbox_ids
            /\ FoldedInOrder(order).flags = last_output.hook.flags
            /\ FoldedInOrder(order).skip_inbox = last_output.hook.skip_inbox
            /\ FoldedInOrder(order).modifications = last_output.hook.modifications

\* C29: when every enabled hook answers with an action other than Discard
\* and Reject and no answer creates a mailbox, mailbox_ids, flags and
\* skip_inbox are the same for every order of the fold; the modifications
\* list holds the same modifications, each as often, for every order, in the
\* order of the fold.
C29_FoldOrderFreeSets ==
    (AllAccepted /\ NoneCreates) =>
        \A order \in Orders(Elements(EnabledHooks(delivery_hooks))) :
            /\ FoldedInOrder(order).kind = "some"
            /\ last_output.hook.kind = "some"
            /\ FoldedInOrder(order).mailbox_ids = last_output.hook.mailbox_ids
            /\ FoldedInOrder(order).flags = last_output.hook.flags
            /\ FoldedInOrder(order).skip_inbox = last_output.hook.skip_inbox
            /\ Len(FoldedInOrder(order).modifications)
                  = Len(last_output.hook.modifications)
            /\ \A m \in Elements(last_output.hook.modifications) :
                  Count(FoldedInOrder(order).modifications, m)
                     = Count(last_output.hook.modifications, m)

\* Two hooks answered, the first with Accept, skip_inbox, a flag, a header
\* and a mailbox, the second with Quarantine: the headers stand in this
\* order.
C29_Witness ==
    /\ AllAccepted
    /\ Len(EnabledHooks(delivery_hooks)) = 2
    /\ last_output.hook.kind = "some"
    /\ last_output.hook.skip_inbox
    /\ last_output.hook.mailbox_ids = {10}
    /\ last_output.hook.flags = {"$label1"}
    /\ last_output.hook.modifications =
          << AddHeader("X-A", "1"), AddHeader("X-Quarantine", "true") >>

\* ---------------------------------------------------------------------------
\* C30 (as stated): whenever an output is processed with no configured hook
\* enabled, try_delivery_hook returns the empty Some result (no mailbox ids,
\* no flags, skip_inbox false, no modifications) without an HTTP request or a
\* fetch of the mailbox cache, and the output is ingested with the script's
\* bytes.
NoHookEnabled == \A k \in 1..Len(delivery_hooks) : ~delivery_hooks[k].enable

EmptyHookResult(hook) ==
    /\ hook.kind = "some"
    /\ hook.mailbox_ids = {}
    /\ hook.flags = {}
    /\ ~hook.skip_inbox
    /\ hook.modifications = <<>>
    /\ hook.requests = 0
    /\ hook.fetches = 0

IngestedUnchanged ==
    /\ last_output.ingested
    /\ last_output.request.raw_message = Unmodified(last_output.output.raw)
    /\ last_output.request.message = Message(Unmodified(last_output.output.raw))

C30_NoHookEnabledIsEmpty ==
    (last_output.rcpt # 0 /\ NoHookEnabled)
        => EmptyHookResult(last_output.hook) /\ IngestedUnchanged

\* C30 (amended): the same, provided the lookup of the account's principal,
\* which try_delivery_hook makes before it looks at the hooks, finds it; a
\* missing principal or a failing directory is returned as an error, still
\* without an HTTP request or a fetch of the mailbox cache.
C30_NoHookEnabledIsEmptyWithPrincipal ==
    (last_output.rcpt # 0 /\ NoHookEnabled)
        => /\ last_output.hook.requests = 0
           /\ last_output.hook.fetches = 0
           /\ IF last_output.input.principal = "ok"
              THEN EmptyHookResult(last_output.hook) /\ IngestedUnchanged
              ELSE last_output.hook.kind = "err" /\ ~last_output.ingested

\* Two hooks are configured and neither is enabled; the output was ingested
\* with the script's bytes.
C30_Witness ==
    /\ last_output.rcpt # 0
    /\ Len(delivery_hooks) = 2
    /\ NoHookEnabled
    /\ last_output.input.principal = "ok"
    /\ EmptyHookResult(last_output.hook)
    /\ IngestedUnchanged

\* ------------------------------------------------------------- quarantine
\* The header and filing modifications of a response, and what the fold
\* leaves in modifications_out for the answers of the enabled hooks from the
\* n-th on when none of them ends it.
HeaderModificationsOf(mods) ==
    LET Is(m) == m.type # "fileInto" IN SelectSeq(mods, Is)
RECURSIVE GatheredFrom(_, _, _, _)
GatheredFrom(hooks, enabled, exchanges, n) ==
    IF n > Len(enabled) THEN <<>>
    ELSE LET response == exchanges[enabled[n]].response
         IN (IF response.ok
             THEN HeaderModificationsOf(response.modifications)
                    \o (IF response.action = "quarantine"
                        THEN << AddHeader("X-Quarantine", "true") >> ELSE <<>>)
             ELSE <<>>)
            \o GatheredFrom(hooks, enabled, exchanges, n + 1)

\* The same hook input with every Quarantine verdict turned into Accept.
QuarantineAsAccept(input) ==
    [input EXCEPT !.exchanges =
        [k \in DOMAIN input.exchanges |->
            IF input.exchanges[k].response.action = "quarantine"
            THEN Exchange([input.exchanges[k].response EXCEPT !.action = "accept"],
                          input.exchanges[k].create)
            ELSE input.exchanges[k]]]

\* The last try_delivery_hook call got a Quarantine from an enabled hook, no
\* Discard and no Reject, and no failure from a hook with tempfail_on_error.
QuarantinedOnly ==
    /\ last_output.rcpt # 0
    /\ last_output.input.principal = "ok"
    /\ \E k \in 1..Len(delivery_hooks) :
        /\ delivery_hooks[k].enable
        /\ last_output.input.exchanges[k].response.ok
        /\ last_output.input.exchanges[k].response.action = "quarantine"
    /\ \A k \in 1..Len(delivery_hooks) :
        delivery_hooks[k].enable =>
            /\ last_output.input.exchanges[k].response.action
                    \notin {"discard", "reject"}
            /\ (~last_output.input.exchanges[k].response.ok
                    => ~delivery_hooks[k].tempfail_on_error)

\* The fetch of the mailbox cache, a mailbox creation or the cache fetch after
\* it failed in the last try_delivery_hook call.
HookStoreFailure ==
    \/ last_output.input.cache = "err"
    \/ \E k \in 1..Len(delivery_hooks) :
        /\ delivery_hooks[k].enable
        /\ last_output.input.exchanges[k].response.ok
        /\ last_output.input.exchanges[k].create \in {"err", "refresh_err"}

QuarantineDelivered ==
    /\ last_output.hook.kind = "some"
    /\ last_output.hook.modifications
         = GatheredFrom(delivery_hooks, EnabledFrom(delivery_hooks, 1),
                        last_output.input.exchanges, 1)
    /\ last_output.hook.mailbox_ids
         = TryDeliveryHook(delivery_hooks, last_output.tree,
                           QuarantineAsAccept(last_output.input)).mailbox_ids
    /\ last_output.ingested

QuarantineHeaderIngested ==
    \E j \in 1..Len(last_output.request.raw_message.added) :
        last_output.request.raw_message.added[j]
            = AddHeader("X-Quarantine", "true")

PrincipalMissingStatus ==
    PermanentFailure(<<5, 5, 0>>, "User principal not found for delivery hook")

\* The last try_delivery_hook call found no principal for the account.
PrincipalMissing ==
    last_output.rcpt # 0 /\ last_output.input.principal = "none"

\* C32: when the directory has no principal for the recipient's account at
\* the time the hook request is built, the recipient ends with
\* PermanentFailure code 550 and nothing is ingested for it, whatever hooks
\* are configured or enabled.
C32_MissingPrincipalIs550 ==
    PrincipalMissing =>
        /\ pc = "returned" => StatusFor(dtr_result) = PrincipalMissingStatus
        /\ log[LastRcpt].delivered => status[LastRcpt] = PrincipalMissingStatus
        /\ calls[log[LastRcpt].account].stored = 0

\* The part of C32 that holds: the status is PermanentFailure 5.5.0, and the
\* output message at hand is not handed to email_ingest.
C32_StatusOnly ==
    PrincipalMissing =>
        /\ pc = "returned" => StatusFor(dtr_result) = PrincipalMissingStatus
        /\ log[LastRcpt].delivered => status[LastRcpt] = PrincipalMissingStatus
        /\ ~last_output.ingested

\* ------------------------------------------------- permanent means 5xx
\* try_delivery_hook ended the last output with its temporary rejection.
HookTempfailed ==
    /\ last_output.rcpt # 0
    /\ last_output.hook.kind = "err"
    /\ last_output.hook.error
         = MessageIngestError(451, "Message temporarily rejected by delivery hook")

\* C33: every PermanentFailure status returned by deliver_message has a code
\* whose first digit is 5, and the temporary rejection of a delivery hook
\* (code 451) reaches the caller as a TemporaryFailure.
C33_PermanentIsFiveXX ==
    /\ \A i \in 1..Len(status) :
        status[i].variant = "PermanentFailure" => status[i].code[1] = 5
    /\ (HookTempfailed /\ log[LastRcpt].delivered)
            => status[LastRcpt].variant = "TemporaryFailure"

\* ------------------------------------------------- success means delivered
\* An email_ingest call for account a returned Ok, or the filter script or a
\* delivery hook discarded the message for it.
IngestedOrDiscarded(a) ==
    \/ calls[a].ingested # <<>>
    \/ calls[a].discards > 0
    \/ log[FirstOf(a)].script.kind = "discard"

\* No output message for account a reached the delivery hooks: the filter
\* script ran and returned no output message, or only changed ones that
\* failed to parse and were skipped.
NoOutputDelivered(a) ==
    /\ log[FirstOf(a)].script.kind = "messages"
    /\ calls[a].hook = 0
    /\ calls[a].ingest = 0

\* C34 (as stated): a recipient has status Success only if an email_ingest
\* call succeeded for its account during this deliver_message call, or the
\* filter script or a delivery hook discarded the message.
C34_SuccessMeansIngested ==
    \A i \in 1..Len(status) :
        status[i] = Success => IngestedOrDiscarded(log[i].account)

\* C34 (amended): ... or the filter script returned no output message that
\* parses (none at all, or only changed ones, each logged and skipped).
C34_SuccessMeansIngestedOrSkipped ==
    \A i \in 1..Len(status) :
        status[i] = Success =>
            \/ IngestedOrDiscarded(log[i].account)
            \/ NoOutputDelivered(log[i].account)

\* The filter script returned output messages none of which parsed (or none
\* at all); nothing was handed to the hooks or to email_ingest, and the
\* recipient's status is Success.
C34_Witness ==
    /\ Len(status) = 1
    /\ status[1] = Success
    /\ NoOutputDelivered(log[1].account)
    /\ ~IngestedOrDiscarded(log[1].account)
    /\ last_output = NoOutput

\* ------------------------------------------------------ push notifications
\* The push notification that carries the ids of an ingested email.
PushOf(a, email) ==
    [account_id |-> a, email_id |-> email.document_id,
     change_id |-> email.change_id]

\* C35 (as stated): once the recipient's status is recorded, every
\* email_ingest call for its account that stored a message has been followed
\* by a push notification for the account with the email's document id and
\* change id.
C35_EveryIngestPushed ==
    \A i \in Taken :
        log[i].delivered =>
            \A j \in 1..Len(calls[log[i].account].ingested) :
                LET email == calls[log[i].account].ingested[j]
                IN email.change_id # U64_MAX
                    => \E n \in PushesFor(log[i].account) :
                            pushes[n] = PushOf(log[i].account, email)

\* C35 (amended): a recipient gets at most one push notification: exactly
\* when deliver_to_recipient returned Ok with a change id other than MAX, and
\* then with the ids returned by the last email_ingest call that succeeded
\* for the account.
C35_LastIngestPushed ==
    \A i \in Taken :
        log[i].delivered =>
            LET a == log[i].account
                ingested == calls[a].ingested
            IN /\ Cardinality(PushesFor(a)) <= 1
               /\ PushesFor(a) # {}
                    <=> (log[i].result.ok
                            /\ log[i].result.email.change_id # U64_MAX)
               /\ \A n \in PushesFor(a) :
                    /\ ingested # <<>>
                    /\ pushes[n] = PushOf(a, ingested[Len(ingested)])

\* Two output messages were stored for the recipient and one notification
\* went out, for the second.
C35_Witness ==
    /\ Len(status) = 1
    /\ Len(log) = 1
    /\ log[1].lookup = "found"
    /\ log[1].delivered
    /\ Len(calls[log[1].account].ingested) = 2
    /\ calls[log[1].account].stored = 2
    /\ Len(pushes) = 1
    /\ pushes[1] = PushOf(log[1].account, calls[log[1].account].ingested[2])
    /\ pushes[1] # PushOf(log[1].account, calls[log[1].account].ingested[1])

\* ------------------------------------------------- somewhere to file it
\* C36: whenever email_ingest is called for an output message whose mailbox
\* list from the filter script was not empty, the mailbox id list passed to
\* it is not empty, whatever the hooks' FileInto results, skip_inbox and
\* keywords are.
C36_MailboxListNonEmpty ==
    (last_output.ingested /\ last_output.output.mailbox_ids # <<>>)
        => last_output.request.mailbox_ids # <<>>

\* ------------------------------------------------- mailboxes of the undelivered
\* The last try_delivery_hook call ended with a Discard, or with the error of
\* a reject or of a tempfail.
EndedUndelivered ==
    /\ last_output.rcpt # 0
    /\ \/ last_output.hook.kind = "none"
       \/ /\ last_output.hook.kind = "err"
          /\ last_output.hook.error \in
                { MessageIngestError(451,
                        "Message temporarily rejected by delivery hook"),
                  MessageIngestError(550, "Message rejected by delivery hook") }

\* The number of FileInto modifications with create=true in the responses the
\* last call folded: those of the enabled hooks that answered, up to the first
\* Discard.
CreatesIn(mods) ==
    LET Is(m) == m.type = "fileInto" /\ m.create IN Len(SelectSeq(mods, Is))
RECURSIVE CreatesAskedFrom(_, _, _)
CreatesAskedFrom(enabled, exchanges, n) ==
    IF n > Len(enabled) THEN 0
    ELSE LET response == exchanges[enabled[n]].response
         IN IF ~response.ok THEN CreatesAskedFrom(enabled, exchanges, n + 1)
            ELSE CreatesIn(response.modifications)
                    + IF response.action = "discard" THEN 0
                      ELSE CreatesAskedFrom(enabled, exchanges, n + 1)
CreatesAsked ==
    CreatesAskedFrom(EnabledFrom(delivery_hooks, 1),
                     last_output.input.exchanges, 1)

Prepended == SubSeq(Out, 1, Len(Out) - Len(original_raw))

\* C38: the bytes apply_add_header_modifications places before raw are
\* exactly one CRLF-terminated line per pair, whatever bytes name and value
\* hold: as many CR and as many LF as pairs, each LF right after a CR, the
\* last one at the end, and no empty line.
C38_OneLinePerPair ==
    (header_pc = "returned" /\ new_message.some) =>
        /\ Cardinality({ p \in 1..Len(Prepended) : Prepended[p] = LF })
              = Len(header_ops)
        /\ Cardinality({ p \in 1..Len(Prepended) : Prepended[p] = CR })
              = Len(header_ops)
        /\ \A p \in 1..Len(Prepended) :
              Prepended[p] = LF => (p > 1 /\ Prepended[p - 1] = CR)
        /\ header_ops # <<>> => Prepended[Len(Prepended)] = LF
        /\ \A p \in 1..(Len(Prepended) - 3) :
              SubSeq(Prepended, p, p + 3) # CRLF \o CRLF

\* ------------------------------------------------- the other header lines
\* The lines of the header section of a message that has CRLF CRLF: the
\* pieces between the line feeds up to the blank line, each with its CR if it
\* has one.
FirstBlankLine(raw) ==
    CHOOSE p \in 0..(Len(raw) - 4) :
        /\ SubSeq(raw, p + 1, p + 4) = CRLF \o CRLF
        /\ \A q \in 0..(p - 1) : SubSeq(raw, q + 1, q + 4) # CRLF \o CRLF
RawLines(raw) == SplitLines(SubSeq(raw, 1, FirstBlankLine(raw) + 1), 1, <<>>)

\* Line j starts a header (it has a colon and does not begin with a space or
\* a tab) or continues one.
StartsHeader(lines, j) ==
    /\ StripCr(lines[j]) # <<>>
    /\ lines[j][1] \notin {" ", HT}
    /\ ColonPos(StripCr(lines[j])) > 0
ContinuesHeader(lines, j) ==
    StripCr(lines[j]) # <<>> /\ lines[j][1] \in {" ", HT}

\* The last line of the header that starts at line j, the bytes of that
\* header in the message, and the same bytes as the rebuild writes a header:
\* one space after the colon unless the value begins with a space or a tab,
\* and CRLF at the end of each line.
LastLineOf(lines, j) ==
    CHOOSE k \in j..Len(lines) :
        /\ \A q \in (j + 1)..k : ContinuesHeader(lines, q)
        /\ (k = Len(lines) \/ ~ContinuesHeader(lines, k + 1))
RECURSIVE LinesAsWritten(_, _, _)
LinesAsWritten(lines, j, k) ==
    IF j > k THEN <<>>
    ELSE lines[j] \o << LF >> \o LinesAsWritten(lines, j + 1, k)
RECURSIVE LinesWithCrLf(_, _, _)
LinesWithCrLf(lines, j, k) ==
    IF j > k THEN <<>>
    ELSE StripCr(lines[j]) \o CRLF \o LinesWithCrLf(lines, j + 1, k)
HeaderAsInRaw(lines, j) == LinesAsWritten(lines, j, LastLineOf(lines, j))
HeaderRespaced(lines, j) ==
    LET line == StripCr(lines[j])
        name == SubSeq(line, 1, ColonPos(line) - 1)
        rest == SubSeq(line, ColonPos(line) + 1, Len(line))
        value == IF rest # <<>> /\ rest[1] = " " THEN Tail(rest) ELSE rest
        colon == IF value # <<>> /\ value[1] \in {" ", HT}
                 THEN << ":" >> ELSE << ":", " " >>
    IN name \o colon \o value \o CRLF
       \o LinesWithCrLf(lines, j + 1, LastLineOf(lines, j))

\* No operation of the call names the header that starts at line j.
NotTargeted(lines, j) ==
    \A i \in 1..Len(header_ops) :
        ~SameNameIgnoringCase(
            SubSeq(lines[j], 1, ColonPos(StripCr(lines[j])) - 1),
            header_ops[i][2])

\* The call returned Some for a message whose headers end with CRLF CRLF.
ReplacedWithBlankLine ==
    /\ header_pc = "returned"
    /\ new_message.some
    /\ Occurs(CRLF \o CRLF, original_raw)

\* C39 (as stated): when apply_replace_header_modifications returns Some for
\* a message whose header section ends with CRLF CRLF, every header that no
\* operation names stands in the output byte for byte as in the input.
C39_OthersByteForByte ==
    ReplacedWithBlankLine =>
        \A j \in 1..Len(RawLines(original_raw)) :
            (/\ StartsHeader(RawLines(original_raw), j)
             /\ NotTargeted(RawLines(original_raw), j))
                => Occurs(HeaderAsInRaw(RawLines(original_raw), j), Out)

\* C39 (amended): ... stands in the output with its name and its value, one
\* space after the colon unless the value begins with a space or a tab, and
\* CRLF at the end of each of its lines: byte for byte as in the input
\* exactly when it was written that way.
C39_OthersRespaced ==
    ReplacedWithBlankLine =>
        \A j \in 1..Len(RawLines(original_raw)) :
            (/\ StartsHeader(RawLines(original_raw), j)
             /\ NotTargeted(RawLines(original_raw), j))
                => /\ Occurs(HeaderRespaced(RawLines(original_raw), j), Out)
                   /\ Occurs(HeaderAsInRaw(RawLines(original_raw), j), Out)
                        <=> (HeaderAsInRaw(RawLines(original_raw), j)
                                = HeaderRespaced(RawLines(original_raw), j))

\* The first header Y of a message was replaced; of its other headers,
\* "X:  a" came out with one space, "x: c" with CRLF for its LF, and
\* "Y:" HT "b" as it was.
C39_Witness ==
    /\ ReplacedWithBlankLine
    /\ header_ops = << << 1, << "Y" >>, << "n" >> >> >>
    /\ Occurs(<< "X", ":", " ", " ", "a", CR, LF >>, original_raw)
    /\ Out = << "X", ":", " ", "a", CR, LF, "Y", ":", " ", "n", CR, LF,
                "x", ":", " ", "c", CR, LF, "Y", ":", HT, "b", CR, LF,
                CR, LF, "B" >>

\* ------------------------------------------------ filing in any flag order
\* The orderings of a keyword list.
Reorderings(keywords) ==
    { [j \in 1..Len(keywords) |-> keywords[p[j]]] :
        p \in { q \in [1..Len(keywords) -> 1..Len(keywords)] :
                  \A i, j \in 1..Len(keywords) : q[i] = q[j] => i = j } }

\* An output reached email_ingest: its mailbox list went through the
\* flag-based filing.
Filed == last_output.ingested

\* C40: the flag-based filing gives the same set of mailbox ids for every
\* ordering of the merged keyword list, and filing its result a second time
\* changes nothing.
C40_FilingAnyOrderOnce ==
    Filed =>
        /\ \A keywords \in Reorderings(last_output.locals.keywords) :
              Elements(FlagFiling(last_output.locals.mailbox_ids, keywords, 1))
                  = Elements(last_output.request.mailbox_ids)
        /\ \A keywords \in Reorderings(last_output.request.keywords) :
              FlagFiling(last_output.request.mailbox_ids, keywords, 1)
                  = last_output.request.mailbox_ids

\* INBOX and another mailbox with the keywords Deleted and Junk, in this
\* order: filed into the other mailbox, Trash and Junk, where the other order
\* gives the same mailboxes with Junk before Trash.
C40_Witness ==
    /\ Filed
    /\ last_output.locals.mailbox_ids = <<INBOX_ID, 10>>
    /\ last_output.locals.keywords = <<"Deleted", "Junk">>
    /\ last_output.request.mailbox_ids = <<10, TRASH_ID, JUNK_ID>>
    /\ FlagFiling(<<INBOX_ID, 10>>, <<"Junk", "Deleted">>, 1)
           = <<10, JUNK_ID, TRASH_ID>>

====
